---- MODULE Spec2Model ----
(***************************************************************************)
(* A model of p6schema.py (the schema parser, registry and query engine)   *)
(* and p6schema_mcp.py (the same operations as remote tools).              *)
(*                                                                         *)
(* Strings are sequences of Unicode code points, so that str.upper(),      *)
(* str.lower(), the substring test `in`, string equality and the ordering  *)
(* used by sorted() are computed, never assumed.                           *)
(***************************************************************************)
EXTENDS Integers, Sequences, FiniteSets, TLC

VARIABLES
    schema,     \* the Schema parsed from the first schema file (its tables dict)
    schema2,    \* the Schema parsed from the second schema file (compare)
    dirFiles,   \* names of the regular files directly inside DEFAULT_SCHEMA_DIR
    schemaDir,  \* DEFAULT_SCHEMA_DIR itself: whether it exists, its sub-directories
    config,     \* content of CONFIG_FILE: <<>> when the file is absent, else <<dict>>
    registry,   \* the module global _registry: <<>> for None, else <<entries dict>>
    result      \* what the running command or tool call returned

vars == <<schema, schema2, dirFiles, schemaDir, config, registry, result>>

(***************************************************************************)
(* Bounds of the model.                                                    *)
(***************************************************************************)
MaxTables == 2        \* TABLE elements in one document
MaxConstraints == 2   \* CONSTRAINT elements in one document
MaxFields == 2        \* FIELD elements in one document
MaxElems == 3         \* elements below the root of one parsed document
MaxFiles == 2         \* paths directly inside the schema directory

(***************************************************************************)
(* Strings.                                                                *)
(***************************************************************************)
\* str.upper() on one character (the letters the model uses are ASCII)
UpperChar(c) == IF c \in 97..122 THEN c - 32 ELSE c

\* str.lower() on one character
LowerChar(c) == IF c \in 65..90 THEN c + 32 ELSE c

\* str.upper()
Upper(s) == [i \in 1..Len(s) |-> UpperChar(s[i])]

\* str.lower()
Lower(s) == [i \in 1..Len(s) |-> LowerChar(s[i])]

\* Python's `p in s` for strings: p occurs in s as a contiguous substring
Contains(p, s) ==
    \E i \in 0..(Len(s) - Len(p)) : SubSeq(s, i + 1, i + Len(p)) = p

\* Python's s < t for strings: lexicographic by code point
LexLess(s, t) ==
    \E k \in 0..Len(s) :
        /\ k <= Len(t)
        /\ \A i \in 1..k : s[i] = t[i]
        /\ \/ (k = Len(s) /\ k < Len(t))
           \/ (k < Len(s) /\ k < Len(t) /\ s[k + 1] < t[k + 1])

\* sorted(S) for a set S of strings
RECURSIVE Sorted(_)
Sorted(S) ==
    IF S = {} THEN <<>>
    ELSE LET m == CHOOSE x \in S : \A y \in S \ {x} : LexLess(x, y)
         IN  <<m>> \o Sorted(S \ {m})

\* the elements of a sequence, as a set
Range(s) == {s[i] : i \in 1..Len(s)}

(***************************************************************************)
(* XML elements: a tag, the attributes present, the child elements.        *)
(***************************************************************************)
\* elem.get(attr, default)
Get(elem, attr, default) ==
    IF attr \in DOMAIN elem.attrs THEN elem.attrs[attr] ELSE default

\* the string literals of the source
S_N == <<78>>                                   \* "N"
S_NORMAL == <<78, 79, 82, 77, 65, 76>>          \* "NORMAL"
S_NONUNIQUE == <<78, 79, 78, 85, 78, 73, 81, 85, 69>>  \* "NONUNIQUE"
S_FOREIGN == <<70, 79, 82, 69, 73, 71, 78>>     \* "FOREIGN"
S_PRIMARY == <<80, 82, 73, 77, 65, 82, 89>>     \* "PRIMARY"

Field_from_xml(elem) ==
    [name |-> Get(elem, "NAME", <<>>),
     datatype |-> Get(elem, "DATATYPE", <<>>),
     charlength |-> Get(elem, "CHARLENGTH", <<>>),
     dataprecision |-> Get(elem, "DATAPRECISION", <<>>),
     datascale |-> Get(elem, "DATASCALE", <<>>),
     notnull |-> Get(elem, "NOTNULL", S_N),
     default |-> Get(elem, "DEFAULT", <<>>),
     description |-> Get(elem, "DESC", <<>>),
     idcolumn |-> Get(elem, "IDCOLUMN", S_N)]

Index_from_xml(elem) ==
    [name |-> Get(elem, "NAME", <<>>),
     fields |-> Get(elem, "FIELD", <<>>),
     uniqueness |-> Get(elem, "UNIQUENESS", S_NONUNIQUE),
     tablespace |-> Get(elem, "TABLESPACE", <<>>)]

Constraint_from_xml(elem) ==
    [name |-> Get(elem, "NAME", <<>>),
     type |-> Get(elem, "TYPE", <<>>),
     fields |-> Get(elem, "FIELDS", <<>>),
     target_table |-> Get(elem, "TARGETTABLE", <<>>),
     target_fields |-> Get(elem, "TARGETFIELDS", <<>>),
     delete_rule |-> Get(elem, "DELETERULE", <<>>)]

Trigger_from_xml(elem) ==
    [name |-> Get(elem, "NAME", <<>>),
     set_type |-> Get(elem, "SET", <<>>),
     target |-> Get(elem, "TARGET", <<>>),
     description |-> Get(elem, "DESC", <<>>)]

\* the children of elem with the given tag, in document order
ChildrenTagged(elem, tag) == SelectSeq(elem.children, LAMBDA c : c.tag = tag)

Table_from_xml(elem) ==
    LET fs == ChildrenTagged(elem, "FIELD")
        is == ChildrenTagged(elem, "INDEX")
        cs == ChildrenTagged(elem, "CONSTRAINT")
        ts == ChildrenTagged(elem, "TRIGGER")
    IN  [name |-> Get(elem, "NAME", <<>>),
         description |-> Get(elem, "DESC", <<>>),
         title |-> Get(elem, "TITLE", <<>>),
         tabletype |-> Get(elem, "TABLETYPE", S_NORMAL),
         tablespace |-> Get(elem, "TABLESPACE", <<>>),
         ordinal |-> Get(elem, "ORDINAL", <<>>),
         fields |-> [i \in 1..Len(fs) |-> Field_from_xml(fs[i])],
         indexes |-> [i \in 1..Len(is) |-> Index_from_xml(is[i])],
         constraints |-> [i \in 1..Len(cs) |-> Constraint_from_xml(cs[i])],
         triggers |-> [i \in 1..Len(ts) |-> Trigger_from_xml(ts[i])]]

(***************************************************************************)
(* A Python dict keyed by table name is a sequence of tables with distinct *)
(* names, in insertion order.                                              *)
(***************************************************************************)
\* a dict assignment that keeps the value already stored under the key
DictSet_keepfirst(d, table) ==
    IF \E i \in 1..Len(d) : d[i].name = table.name THEN d ELSE Append(d, table)

\* d[table.name] = table: an existing key keeps its place, a new key is appended
DictSet(d, table) ==
    IF \E i \in 1..Len(d) : d[i].name = table.name
    THEN [i \in 1..Len(d) |-> IF d[i].name = table.name THEN table ELSE d[i]]
    ELSE Append(d, table)

\* d.get(key): <<>> for None, else <<value>>
DictGet(d, key) == SelectSeq(d, LAMBDA t : t.name = key)

\* the loop of Schema.from_xml over root.findall("TABLE")
RECURSIVE ParseTables(_, _)
ParseTables(elems, d) ==
    IF elems = <<>> THEN d
    ELSE ParseTables(Tail(elems), DictSet(d, Table_from_xml(Head(elems))))

\* Schema.from_xml taking every child of the root for a TABLE element
Schema_from_xml_allchildren(root) ==
    [version |-> Get(root, "VERSION", <<>>),
     dbtype |-> Get(root, "DBTYPE", <<>>),
     build_version |-> Get(root, "BUILD_VERSION_ID", <<>>),
     min_pro_version |-> Get(root, "MIN_PRO_VERSION", <<>>),
     tables |-> ParseTables(root.children, <<>>)]

\* Schema.from_xml on a parsed document root
Schema_from_xml(root) ==
    [version |-> Get(root, "VERSION", <<>>),
     dbtype |-> Get(root, "DBTYPE", <<>>),
     build_version |-> Get(root, "BUILD_VERSION_ID", <<>>),
     min_pro_version |-> Get(root, "MIN_PRO_VERSION", <<>>),
     tables |-> ParseTables(ChildrenTagged(root, "TABLE"), <<>>)]

(***************************************************************************)
(* Query engine: the methods of Schema.                                    *)
(***************************************************************************)
\* Schema.get_table: <<>> for None, else <<table>>
get_table(s, name) == DictGet(s.tables, Upper(name))

\* Schema.search_tables
search_tables(s, pattern) ==
    LET p == Upper(pattern)
    IN  SelectSeq(s.tables, LAMBDA t : Contains(p, t.name))

\* s1 + s2 + ... for a sequence of lists
RECURSIVE ConcatAll(_)
ConcatAll(ss) == IF ss = <<>> THEN <<>> ELSE Head(ss) \o ConcatAll(Tail(ss))

\* the inner loop of Schema.search_relationships for one table, with the
\* constraint name left out of the match
search_relationships_of_noname(table, p) ==
    LET cs == SelectSeq(table.constraints, LAMBDA c :
                  /\ c.type = S_FOREIGN
                  /\ \/ Contains(p, Upper(table.name))
                     \/ Contains(p, Upper(c.target_table))
                     \/ Contains(p, Upper(c.fields))
                     \/ Contains(p, Upper(c.target_fields)))
    IN  [i \in 1..Len(cs) |->
            [source_table |-> table.name,
             constraint |-> cs[i].name,
             fields |-> cs[i].fields,
             target_table |-> cs[i].target_table,
             target_fields |-> cs[i].target_fields]]

\* the inner loop of Schema.search_relationships for one table
search_relationships_of(table, p) ==
    LET cs == SelectSeq(table.constraints, LAMBDA c :
                  /\ c.type = S_FOREIGN
                  /\ \/ Contains(p, Upper(table.name))
                     \/ Contains(p, Upper(c.target_table))
                     \/ Contains(p, Upper(c.fields))
                     \/ Contains(p, Upper(c.target_fields))
                     \/ Contains(p, Upper(c.name)))
    IN  [i \in 1..Len(cs) |->
            [source_table |-> table.name,
             constraint |-> cs[i].name,
             fields |-> cs[i].fields,
             target_table |-> cs[i].target_table,
             target_fields |-> cs[i].target_fields]]

\* Schema.search_relationships
search_relationships(s, pattern) ==
    LET p == Upper(pattern)
    IN  ConcatAll([i \in 1..Len(s.tables) |->
                      search_relationships_of(s.tables[i], p)])

(***************************************************************************)
(* relationships: the CLI command and the remote tool.                     *)
(***************************************************************************)
\* cmd_relationships, the outgoing loop
cli_outgoing(table) ==
    LET cs == SelectSeq(table.constraints, LAMBDA c : c.type = S_FOREIGN)
    IN  [i \in 1..Len(cs) |->
            [constraint |-> cs[i].name,
             fields |-> cs[i].fields,
             references_table |-> cs[i].target_table,
             references_fields |-> cs[i].target_fields]]

\* the incoming entries one other table contributes
incoming_of(other, table) ==
    LET cs == SelectSeq(other.constraints, LAMBDA c :
                  c.type = S_FOREIGN /\ Upper(c.target_table) = Upper(table.name))
    IN  [i \in 1..Len(cs) |->
            [table |-> other.name,
             constraint |-> cs[i].name,
             fields |-> cs[i].fields,
             references_fields |-> cs[i].target_fields]]

\* the incoming entries of one other table, the target compared as written
incoming_of_exact(other, table) ==
    LET cs == SelectSeq(other.constraints, LAMBDA c :
                  c.type = S_FOREIGN /\ c.target_table = table.name)
    IN  [i \in 1..Len(cs) |->
            [table |-> other.name,
             constraint |-> cs[i].name,
             fields |-> cs[i].fields,
             references_fields |-> cs[i].target_fields]]

\* the incoming loop without the guard that skips the table itself
cli_incoming_noskip(s, table) ==
    ConcatAll([i \in 1..Len(s.tables) |-> incoming_of(s.tables[i], table)])

\* cmd_relationships, the incoming loop
cli_incoming(s, table) ==
    ConcatAll([i \in 1..Len(s.tables) |->
                  IF s.tables[i].name = table.name THEN <<>>
                  ELSE incoming_of(s.tables[i], table)])

\* cmd_relationships with --format json
cmd_relationships(s, name) ==
    LET found == get_table(s, name)
    IN  IF found = <<>>
        THEN [error |-> "TableNotFound", exit |-> 1]
        ELSE [table |-> found[1].name,
              outgoing |-> cli_outgoing(found[1]),
              incoming |-> cli_incoming(s, found[1])]

\* get_relationships, the outgoing loop
mcp_outgoing(table) ==
    LET cs == SelectSeq(table.constraints, LAMBDA c : c.type = S_FOREIGN)
    IN  [i \in 1..Len(cs) |->
            [constraint |-> cs[i].name,
             fields |-> cs[i].fields,
             references_table |-> cs[i].target_table,
             references_fields |-> cs[i].target_fields]]

\* the incoming loop comparing the target table name as written
mcp_incoming_exact(s, table) ==
    ConcatAll([i \in 1..Len(s.tables) |->
                  IF s.tables[i].name = table.name THEN <<>>
                  ELSE incoming_of_exact(s.tables[i], table)])

\* get_relationships, the incoming loop
mcp_incoming(s, table) ==
    ConcatAll([i \in 1..Len(s.tables) |->
                  IF s.tables[i].name = table.name THEN <<>>
                  ELSE incoming_of(s.tables[i], table)])

\* the remote tool get_relationships
get_relationships(s, name) ==
    LET found == get_table(s, name)
    IN  IF found = <<>>
        THEN [error |-> "TableNotFound"]
        ELSE [table |-> found[1].name,
              outgoing |-> mcp_outgoing(found[1]),
              incoming |-> mcp_incoming(s, found[1]),
              outgoing_count |-> Len(mcp_outgoing(found[1])),
              incoming_count |-> Len(mcp_incoming(s, found[1]))]

\* the remote tool describe_table
describe_table(s, name) ==
    LET found == get_table(s, name)
    IN  IF found = <<>>
        THEN [error |-> "TableNotFound"]
        ELSE [name |-> found[1].name,
              description |-> found[1].description,
              title |-> found[1].title,
              tablespace |-> found[1].tablespace,
              fields |-> found[1].fields,
              indexes |-> found[1].indexes,
              constraints |-> found[1].constraints,
              triggers |-> found[1].triggers]

\* the remote tool search, search_type "table"
search_table(s, pattern) ==
    LET ts == search_tables(s, pattern)
    IN  [tables |-> [i \in 1..Len(ts) |->
                        [name |-> ts[i].name, description |-> ts[i].description]]]

\* the remote tool search, search_type "rel"
search_rel(s, pattern) == [relationships |-> search_relationships(s, pattern)]

\* Schema.search_fields: the pairs (table name, field) that match
search_fields(s, pattern) ==
    ConcatAll([i \in 1..Len(s.tables) |->
        LET fs == SelectSeq(s.tables[i].fields,
                            LAMBDA f : Contains(Upper(pattern), Upper(f.name)))
        IN  [j \in 1..Len(fs) |-> <<s.tables[i].name, fs[j]>>]])

\* the remote tool search, search_type "field"
search_field(s, pattern) ==
    LET fs == search_fields(s, pattern)
    IN  [fields |-> [i \in 1..Len(fs) |->
                        [table |-> fs[i][1], field |-> fs[i][2].name,
                         datatype |-> fs[i][2].datatype,
                         description |-> fs[i][2].description]]]

\* sorted(tables, key=lambda t: t.name) for tables with distinct names
RECURSIVE SortByName(_)
SortByName(ts) ==
    IF ts = {} THEN <<>>
    ELSE LET m == CHOOSE x \in ts : \A y \in ts \ {x} : LexLess(x.name, y.name)
         IN  <<m>> \o SortByName(ts \ {m})

\* the rows get_fields builds for one table
FieldRows(t) ==
    [j \in 1..Len(t.fields) |->
        [table |-> t.name, field |-> t.fields[j].name,
         datatype |-> t.fields[j].datatype,
         length |-> IF t.fields[j].charlength # <<>> THEN t.fields[j].charlength
                    ELSE t.fields[j].dataprecision,
         notnull |-> t.fields[j].notnull = <<89>>,
         description |-> t.fields[j].description]]

\* the remote tool get_fields; table is <<>> when no table is given
get_fields(s, table) ==
    IF table # <<>>
    THEN IF get_table(s, table) = <<>>
         THEN <<[error |-> "TableNotFound"]>>
         ELSE FieldRows(get_table(s, table)[1])
    ELSE LET ts == SortByName(Range(s.tables))
         IN  ConcatAll([i \in 1..Len(ts) |-> FieldRows(ts[i])])

\* datatypes[f.datatype] = datatypes.get(f.datatype, 0) + 1 over a list of
\* fields: the dict as a sequence of (datatype, count) in insertion order
RECURSIVE CountDatatypes(_, _)
CountDatatypes(fs, d) ==
    IF fs = <<>> THEN d
    ELSE CountDatatypes(Tail(fs),
             IF \E i \in 1..Len(d) : d[i][1] = Head(fs).datatype
             THEN [i \in 1..Len(d) |->
                      IF d[i][1] = Head(fs).datatype THEN <<d[i][1], d[i][2] + 1>>
                      ELSE d[i]]
             ELSE Append(d, <<Head(fs).datatype, 1>>))

\* the remote tool get_stats
get_stats(s) ==
    LET cs == ConcatAll([i \in 1..Len(s.tables) |-> s.tables[i].constraints])
        fs == ConcatAll([i \in 1..Len(s.tables) |-> s.tables[i].fields])
        is == ConcatAll([i \in 1..Len(s.tables) |-> s.tables[i].indexes])
    IN  [version |-> s.version,
         tables |-> Len(s.tables),
         fields |-> Len(fs),
         indexes |-> Len(is),
         constraints |-> Len(cs),
         foreign_keys |-> Len(SelectSeq(cs, LAMBDA c : c.type = S_FOREIGN)),
         datatypes |-> CountDatatypes(fs, <<>>)]

(***************************************************************************)
(* The documents the query commands are run on.                            *)
(***************************************************************************)
TableNames == {<<65, 66>>, <<65, 98>>, <<66>>}          \* "AB", "Ab", "B"
Lookups == {<<65, 66>>, <<97, 98>>, <<65, 98>>, <<98>>} \* "AB", "ab", "Ab", "b"
RelLookups == {<<97, 98>>, <<66>>}                      \* "ab", "B"
Patterns == {<<97>>, <<98>>, <<107>>, <<120>>, <<121>>} \* "a", "b", "k", "x", "y"

\* CONSTRAINT elements: three foreign keys, and a primary key that carries a
\* target table and whose name and target match what the foreign keys match
ForeignElem(n, t) ==
    [tag |-> "CONSTRAINT",
     attrs |-> [NAME |-> n, TYPE |-> S_FOREIGN, FIELDS |-> <<88>>,
                TARGETTABLE |-> t, TARGETFIELDS |-> <<89>>],
     children |-> <<>>]

ConstraintElems ==
    {ForeignElem(<<70, 65>>, <<66>>),       \* FA -> B
     ForeignElem(<<75>>, <<66>>),           \* K -> B
     ForeignElem(<<75>>, <<97, 98>>),       \* K -> ab
     [tag |-> "CONSTRAINT",
      attrs |-> [NAME |-> <<70, 65>>, TYPE |-> S_PRIMARY, FIELDS |-> <<88>>,
                 TARGETTABLE |-> <<97, 98>>, TARGETFIELDS |-> <<89>>],
      children |-> <<>>]}

\* TABLE elements named from `names` with exactly k children drawn from `kids`
TableElemsWith(names, kids, k) ==
    {[tag |-> "TABLE", attrs |-> [NAME |-> n], children |-> cs] :
        n \in names, cs \in [1..k -> kids]}

\* sequences of exactly n TABLE elements holding at most b children in all
RECURSIVE TableSeqs(_, _, _, _)
TableSeqs(names, kids, n, b) ==
    IF n = 0 THEN {<<>>}
    ELSE UNION {{<<t>> \o d : t \in TableElemsWith(names, kids, k),
                              d \in TableSeqs(names, kids, n - 1, b - k)} :
                k \in 0..b}

\* a document root with the given TABLE children
Root(tables) ==
    [tag |-> "DATABASE", attrs |-> [VERSION |-> <<49>>], children |-> tables]

\* a FIELD element named "ab" of the type "int"
QueryFieldElem ==
    [tag |-> "FIELD",
     attrs |-> [NAME |-> <<97, 98>>, DATATYPE |-> <<105, 110, 116>>],
     children |-> <<>>]

\* the schemas parsed from the documents of the query commands: tables with
\* keys, and single tables with fields
QuerySchemas ==
    {Schema_from_xml(Root(d)) :
        d \in UNION {TableSeqs(TableNames, ConstraintElems, n, MaxConstraints) :
                        n \in 0..MaxTables}
              \cup TableSeqs(TableNames, {QueryFieldElem}, 1, MaxFields)}

EmptySchema == Schema_from_xml(Root(<<>>))

(***************************************************************************)
(* Commands and tool calls on a loaded schema.  A process runs one command *)
(* (result = Idle until it has run) and exits.                             *)
(***************************************************************************)
Idle == [op |-> "idle"]

DescribeTable ==
    /\ result = Idle
    /\ \E name \in Lookups :
          result' = [op |-> "describe_table", arg |-> name,
                     out |-> describe_table(schema, name)]
    /\ UNCHANGED <<schema, schema2, dirFiles, schemaDir, config, registry>>

SearchTable ==
    /\ result = Idle
    /\ \E pattern \in Patterns :
          result' = [op |-> "search_table", arg |-> pattern,
                     out |-> search_table(schema, pattern)]
    /\ UNCHANGED <<schema, schema2, dirFiles, schemaDir, config, registry>>

SearchRel ==
    /\ result = Idle
    /\ \E pattern \in Patterns :
          result' = [op |-> "search_rel", arg |-> pattern,
                     out |-> search_rel(schema, pattern)]
    /\ UNCHANGED <<schema, schema2, dirFiles, schemaDir, config, registry>>

CmdRelationships ==
    /\ result = Idle
    /\ \E name \in RelLookups :
          result' = [op |-> "cmd_relationships", arg |-> name,
                     out |-> cmd_relationships(schema, name)]
    /\ UNCHANGED <<schema, schema2, dirFiles, schemaDir, config, registry>>

GetRelationships ==
    /\ result = Idle
    /\ \E name \in RelLookups :
          result' = [op |-> "get_relationships", arg |-> name,
                     out |-> get_relationships(schema, name)]
    /\ UNCHANGED <<schema, schema2, dirFiles, schemaDir, config, registry>>

\* the command has printed its output and the process ends
Exit ==
    /\ result # Idle
    /\ result' = Idle
    /\ registry' = <<>>
    /\ UNCHANGED <<schema, schema2, dirFiles, schemaDir, config>>


(***************************************************************************)
(* compare: the CLI command (json and text output) and the remote tool.    *)
(* `for name in common` iterates a Python set of strings, whose order      *)
(* depends on the process's hash seed: `order` is that order.              *)
(***************************************************************************)
\* set(schema.tables.keys())
Keys(s) == {s.tables[i].name : i \in 1..Len(s.tables)}

\* schema.tables[name]
TableAt(s, name) == s.tables[CHOOSE i \in 1..Len(s.tables) : s.tables[i].name = name]

\* {f.name for f in t.fields}
FieldNameSet(t) == {t.fields[i].name : i \in 1..Len(t.fields)}

\* the orders in which a set can be iterated
Orders(S) ==
    {o \in [1..Cardinality(S) -> S] : \A i, j \in 1..Cardinality(S) : o[i] = o[j] => i = j}

\* the modified-tables loop reporting every common table
compare_schemas_modified_all(s1, s2, order) ==
    [i \in 1..Len(order) |->
        [table |-> order[i],
         added_fields |-> Sorted(FieldNameSet(TableAt(s2, order[i]))
                                 \ FieldNameSet(TableAt(s1, order[i]))),
         removed_fields |-> Sorted(FieldNameSet(TableAt(s1, order[i]))
                                   \ FieldNameSet(TableAt(s2, order[i])))]]

\* compare_schemas, the modified-tables loop
compare_schemas_modified(s1, s2, order) ==
    LET changed == SelectSeq(order, LAMBDA name :
                       FieldNameSet(TableAt(s1, name)) # FieldNameSet(TableAt(s2, name)))
    IN  [i \in 1..Len(changed) |->
            [table |-> changed[i],
             added_fields |-> Sorted(FieldNameSet(TableAt(s2, changed[i]))
                                     \ FieldNameSet(TableAt(s1, changed[i]))),
             removed_fields |-> Sorted(FieldNameSet(TableAt(s1, changed[i]))
                                       \ FieldNameSet(TableAt(s2, changed[i])))]]

\* the remote tool compare_schemas
compare_schemas(s1, s2, order) ==
    [schema1 |-> [version |-> s1.version, table_count |-> Cardinality(Keys(s1))],
     schema2 |-> [version |-> s2.version, table_count |-> Cardinality(Keys(s2))],
     added_tables |-> Sorted(Keys(s2) \ Keys(s1)),
     removed_tables |-> Sorted(Keys(s1) \ Keys(s2)),
     modified_tables |-> compare_schemas_modified(s1, s2, order)]

\* the field names of a table in the order of its FIELD elements
FieldNameList(t) == [i \in 1..Len(t.fields) |-> t.fields[i].name]

\* the modified-tables loop comparing the lists of field names
cmd_compare_modified_lists(s1, s2, order) ==
    LET changed == SelectSeq(order, LAMBDA name :
                       FieldNameList(TableAt(s1, name)) # FieldNameList(TableAt(s2, name)))
    IN  [i \in 1..Len(changed) |->
            [table |-> changed[i],
             added_fields |-> Sorted(FieldNameSet(TableAt(s2, changed[i]))
                                     \ FieldNameSet(TableAt(s1, changed[i]))),
             removed_fields |-> Sorted(FieldNameSet(TableAt(s1, changed[i]))
                                       \ FieldNameSet(TableAt(s2, changed[i])))]]

\* cmd_compare, the modified-tables loop (the json branch; the text branch
\* keeps the two differences as sets and sorts them when printing)
cmd_compare_modified(s1, s2, order) ==
    LET changed == SelectSeq(order, LAMBDA name :
                       FieldNameSet(TableAt(s1, name)) # FieldNameSet(TableAt(s2, name)))
    IN  [i \in 1..Len(changed) |->
            [table |-> changed[i],
             added_fields |-> Sorted(FieldNameSet(TableAt(s2, changed[i]))
                                     \ FieldNameSet(TableAt(s1, changed[i]))),
             removed_fields |-> Sorted(FieldNameSet(TableAt(s1, changed[i]))
                                       \ FieldNameSet(TableAt(s2, changed[i])))]]

\* cmd_compare with --format json
cmd_compare_json(s1, s2, order) ==
    [schema1 |-> [version |-> s1.version, tables |-> Cardinality(Keys(s1))],
     schema2 |-> [version |-> s2.version, tables |-> Cardinality(Keys(s2))],
     added_tables |-> Sorted(Keys(s2) \ Keys(s1)),
     removed_tables |-> Sorted(Keys(s1) \ Keys(s2)),
     modified_tables |-> cmd_compare_modified(s1, s2, order)]

\* cmd_compare with --format text: the lines printed, section by section
cmd_compare_text(s1, s2, order) ==
    [schema1 |-> [version |-> s1.version, tables |-> Cardinality(Keys(s1))],
     schema2 |-> [version |-> s2.version, tables |-> Cardinality(Keys(s2))],
     added_tables |-> Sorted(Keys(s2) \ Keys(s1)),
     removed_tables |-> Sorted(Keys(s1) \ Keys(s2)),
     modified_tables |-> cmd_compare_modified(s1, s2, order)]

(***************************************************************************)
(* The documents compare is run on, and the compare commands.              *)
(***************************************************************************)
CompareNames == {<<84>>, <<85>>}                        \* "T", "U"

FieldElem(n, t) ==
    [tag |-> "FIELD", attrs |-> [NAME |-> n, DATATYPE |-> t], children |-> <<>>]

FieldElems ==
    {FieldElem(<<102>>, <<105, 110, 116>>),             \* f: int
     FieldElem(<<102>>, <<115, 116, 114>>),             \* f: str
     FieldElem(<<103>>, <<105, 110, 116>>)}             \* g: int

CompareSchemas ==
    {Schema_from_xml(Root(d)) :
        d \in UNION {TableSeqs(CompareNames, FieldElems, n, MaxFields) :
                        n \in 0..MaxTables}}

ToolCompareSchemas ==
    /\ result = Idle
    /\ \E order \in Orders(Keys(schema) \cap Keys(schema2)) :
          result' = [op |-> "compare_schemas",
                     out |-> compare_schemas(schema, schema2, order)]
    /\ UNCHANGED <<schema, schema2, dirFiles, schemaDir, config, registry>>

CmdCompareJson ==
    /\ result = Idle
    /\ \E order \in Orders(Keys(schema) \cap Keys(schema2)) :
          result' = [op |-> "cmd_compare_json",
                     out |-> cmd_compare_json(schema, schema2, order)]
    /\ UNCHANGED <<schema, schema2, dirFiles, schemaDir, config, registry>>

CmdCompareText ==
    /\ result = Idle
    /\ \E order \in Orders(Keys(schema) \cap Keys(schema2)) :
          result' = [op |-> "cmd_compare_text",
                     out |-> cmd_compare_text(schema, schema2, order)]
    /\ UNCHANGED <<schema, schema2, dirFiles, schemaDir, config, registry>>

\* get_fields rebuilding the table dict in name order
GetFields_sorting ==
    /\ result = Idle
    /\ \E table \in Lookups \cup {<<>>} :
          result' = [op |-> "get_fields", arg |-> table,
                     out |-> get_fields(schema, table)]
    /\ schema' = [schema EXCEPT !.tables = SortByName(Range(schema.tables))]
    /\ UNCHANGED <<schema2, dirFiles, schemaDir, config, registry>>

GetFields ==
    /\ result = Idle
    /\ \E table \in Lookups \cup {<<>>} :
          result' = [op |-> "get_fields", arg |-> table,
                     out |-> get_fields(schema, table)]
    /\ UNCHANGED <<schema, schema2, dirFiles, schemaDir, config, registry>>

SearchField ==
    /\ result = Idle
    /\ \E pattern \in Patterns :
          result' = [op |-> "search_field", arg |-> pattern,
                     out |-> search_field(schema, pattern)]
    /\ UNCHANGED <<schema, schema2, dirFiles, schemaDir, config, registry>>

GetStats ==
    /\ result = Idle
    /\ result' = [op |-> "get_stats", out |-> get_stats(schema)]
    /\ UNCHANGED <<schema, schema2, dirFiles, schemaDir, config, registry>>

InitQuery ==
    /\ schema \in QuerySchemas
    /\ schema2 = EmptySchema
    /\ dirFiles = {}
    /\ schemaDir = [exists |-> TRUE, subdirs |-> {}]
    /\ config = <<>>
    /\ registry = <<>>
    /\ result = Idle

NextQuery ==
    \/ DescribeTable
    \/ SearchTable
    \/ SearchRel
    \/ CmdRelationships
    \/ GetRelationships
    \/ GetFields
    \/ SearchField
    \/ GetStats
    \/ ToolCompareSchemas
    \/ Exit

SpecQuery == InitQuery /\ [][NextQuery]_vars

\* the two schema files named on the command line are loaded; naming the same
\* file twice loads two equal schemas
InitCompare ==
    /\ schema \in CompareSchemas
    /\ schema2 \in CompareSchemas
    /\ dirFiles = {}
    /\ schemaDir = [exists |-> TRUE, subdirs |-> {}]
    /\ config = <<>>
    /\ registry = <<>>
    /\ result = Idle

NextCompare ==
    \/ ToolCompareSchemas
    \/ CmdCompareJson
    \/ CmdCompareText
    \/ Exit

SpecCompare == InitCompare /\ [][NextCompare]_vars

(***************************************************************************)
(* Registry: SchemaEntry, SchemaRegistry, resolve_schema_path.             *)
(***************************************************************************)
S_eppm == <<101, 112, 112, 109>>                        \* "eppm"
S_ppm == <<112, 112, 109>>                              \* "ppm"
S_xml == <<46, 120, 109, 108>>                          \* ".xml"
S_tail == <<95, 115, 99, 104, 101, 109, 97, 46, 120, 109, 108>>  \* "_schema.xml"
DEFAULT_SCHEMA_DIR == <<115, 99, 104, 101, 109, 97, 115, 47>>    \* "schemas/"

\* \d in a str pattern matches every Unicode decimal digit; the model has the
\* ASCII digits and the Arabic-Indic digits U+0660..U+0669
IsDigit(c) == c \in 48..57 \/ c \in 1632..1641

\* the value int() gives a digit
DigitVal(c) == IF c \in 48..57 THEN c - 48 ELSE c - 1632

\* FILENAME_PATTERN.match(name) with the prefix app: <<>> for no match, else
\* <<the three groups>>.  re.IGNORECASE compares letters by their lower case;
\* $ also matches before a final newline.
MatchWith(app, name) ==
    LET n == Len(app)
    IN  IF /\ Len(name) \in {n + 17, n + 18}
           /\ Lower(SubSeq(name, 1, n)) = app
           /\ name[n + 1] = 95
           /\ IsDigit(name[n + 2]) /\ IsDigit(name[n + 3])
           /\ name[n + 4] = 95
           /\ IsDigit(name[n + 5]) /\ IsDigit(name[n + 6])
           /\ Lower(SubSeq(name, n + 7, n + 17)) = S_tail
           /\ (Len(name) = n + 18 => name[n + 18] = 10)
        THEN <<[g1 |-> SubSeq(name, 1, n),
                g2 |-> SubSeq(name, n + 2, n + 3),
                g3 |-> SubSeq(name, n + 5, n + 6)]>>
        ELSE <<>>

\* FILENAME_PATTERN.match(name)
FilenameMatch(name) ==
    IF MatchWith(S_eppm, name) # <<>> THEN MatchWith(S_eppm, name)
    ELSE MatchWith(S_ppm, name)

\* SchemaEntry.key
EntryKey(e) == e.application \o <<58>> \o e.version

\* the SchemaEntry _scan builds for a matching file name
EntryOf(name) ==
    LET m == FilenameMatch(name)[1]
    IN  [application |-> Lower(m.g1),
         version |-> m.g2 \o <<46>> \o m.g3,
         path |-> DEFAULT_SCHEMA_DIR \o name]

\* self._entries[entry.key] = entry
EntrySet(entries, e) ==
    IF \E i \in 1..Len(entries) : EntryKey(entries[i]) = EntryKey(e)
    THEN [i \in 1..Len(entries) |->
             IF EntryKey(entries[i]) = EntryKey(e) THEN e ELSE entries[i]]
    ELSE Append(entries, e)

\* the loop of _scan without the test path.is_file()
RECURSIVE SchemaRegistry_scan_anykind(_, _)
SchemaRegistry_scan_anykind(paths, entries) ==
    IF paths = <<>> THEN entries
    ELSE SchemaRegistry_scan_anykind(Tail(paths),
             IF FilenameMatch(Head(paths).name) # <<>>
             THEN EntrySet(entries, EntryOf(Head(paths).name))
             ELSE entries)

\* the loop of SchemaRegistry._scan: `paths` is schema_dir.iterdir() in the
\* order the file system lists it, each path with its name and its kind
RECURSIVE SchemaRegistry_scan(_, _)
SchemaRegistry_scan(paths, entries) ==
    IF paths = <<>> THEN entries
    ELSE SchemaRegistry_scan(Tail(paths),
             IF Head(paths).is_file /\ FilenameMatch(Head(paths).name) # <<>>
             THEN EntrySet(entries, EntryOf(Head(paths).name))
             ELSE entries)

\* SchemaRegistry(): _entries after __init__ has scanned the directory
SchemaRegistry_init(exists, paths) ==
    IF ~exists THEN <<>> ELSE SchemaRegistry_scan(paths, <<>>)

\* str.strip()
Strip(s) ==
    LET keep == {i \in 1..Len(s) : s[i] \notin {9, 10, 11, 12, 13, 32}}
    IN  IF keep = {} THEN <<>>
        ELSE SubSeq(s, CHOOSE i \in keep : \A j \in keep : i <= j,
                       CHOOSE i \in keep : \A j \in keep : j <= i)

\* re.match(r"^\d{2}\.\d{2}$", s) on a stripped string
IsBareVersion(s) ==
    /\ Len(s) = 5
    /\ IsDigit(s[1]) /\ IsDigit(s[2]) /\ s[3] = 46 /\ IsDigit(s[4]) /\ IsDigit(s[5])

\* self._entries.get(key): <<>> for None, else <<entry>>
EntriesGet(entries, key) == SelectSeq(entries, LAMBDA e : EntryKey(e) = key)

\* SchemaRegistry.get without the step that prefixes a bare version
SchemaRegistry_get_noprefix(entries, specifier) ==
    EntriesGet(entries, Strip(Lower(specifier)))

\* SchemaRegistry.get without the lower-casing of the specifier
SchemaRegistry_get_nolower(entries, specifier) ==
    LET sp == Strip(specifier)
    IN  IF 58 \notin Range(sp) /\ IsBareVersion(sp)
        THEN EntriesGet(entries, S_eppm \o <<58>> \o sp)
        ELSE EntriesGet(entries, sp)

\* SchemaRegistry.get
SchemaRegistry_get(entries, specifier) ==
    LET sp == Strip(Lower(specifier))
    IN  IF 58 \notin Range(sp) /\ IsBareVersion(sp)
        THEN EntriesGet(entries, S_eppm \o <<58>> \o sp)
        ELSE EntriesGet(entries, sp)

\* sorted(es, key=lambda e: e.version) for entries with distinct versions
RECURSIVE SortByVersion(_)
SortByVersion(es) ==
    IF es = {} THEN <<>>
    ELSE LET m == CHOOSE x \in es : \A y \in es \ {x} : LexLess(x.version, y.version)
         IN  <<m>> \o SortByVersion(es \ {m})

\* SchemaRegistry.list_by_app
list_by_app(entries, application) ==
    SortByVersion({e \in Range(entries) : e.application = Lower(application)})

\* sorted(es, key=lambda e: (e.application, e.version)) for entries with
\* distinct keys
RECURSIVE SortByAppVersion(_)
SortByAppVersion(es) ==
    IF es = {} THEN <<>>
    ELSE LET m == CHOOSE x \in es : \A y \in es \ {x} :
                      \/ LexLess(x.application, y.application)
                      \/ /\ x.application = y.application
                         /\ LexLess(x.version, y.version)
         IN  <<m>> \o SortByAppVersion(es \ {m})

\* SchemaRegistry.list_all
list_all(entries) == SortByAppVersion(Range(entries))

\* the remote tool list_schemas
list_schemas(entries) ==
    [i \in 1..Len(list_all(entries)) |->
        [key |-> EntryKey(list_all(entries)[i]),
         application |-> Upper(list_all(entries)[i].application),
         version |-> list_all(entries)[i].version,
         path |-> list_all(entries)[i].path]]

\* SchemaRegistry.available_keys
available_keys(entries) == Sorted({EntryKey(e) : e \in Range(entries)})

\* SchemaRegistry.get_latest: <<>> for None, else <<entry>>
get_latest(entries, application) ==
    LET es == list_by_app(entries, application)
    IN  IF es = <<>> THEN <<>> ELSE <<es[Len(es)]>>

\* load_config: the dict in the file, {} when there is no file
load_config(cfg) == IF cfg = <<>> THEN <<>> ELSE cfg[1]

\* get_default_schema: <<>> for None, else the stored specifier
get_default_schema(cfg) ==
    IF "default_schema" \in DOMAIN load_config(cfg)
    THEN load_config(cfg)["default_schema"] ELSE <<>>

\* Path(specifier).suffix == ".xml", for a specifier without a separator
SuffixIsXml(s) == Len(s) > 4 /\ SubSeq(s, Len(s) - 3, Len(s)) = S_xml

\* the test "looks like a file path" of resolve_schema_path
LooksLikePath(s) == SuffixIsXml(s) \/ 47 \in Range(s) \/ 92 \in Range(s)

\* Path(specifier).exists(), with the files of the schema directory
PathExists(files, p) == \E n \in files : p = DEFAULT_SCHEMA_DIR \o n

\* resolve_schema_path after the default has been read: a specifier is given
resolve_given(entries, files, specifier) ==
    IF LooksLikePath(specifier)
    THEN IF PathExists(files, specifier)
         THEN [path |-> specifier]
         ELSE [error |-> "FileNotFound", specifier |-> specifier]
    ELSE IF SchemaRegistry_get(entries, specifier) # <<>>
         THEN [path |-> SchemaRegistry_get(entries, specifier)[1].path]
         ELSE [error |-> "SchemaNotFound", specifier |-> specifier,
               available |-> available_keys(entries)]

\* resolve_schema_path falling back to the latest eppm schema when the stored
\* default does not resolve
resolve_schema_path_fallback(entries, files, cfg, specifier) ==
    LET sp == IF specifier = <<>> THEN get_default_schema(cfg) ELSE specifier
        latest == IF get_latest(entries, S_eppm) # <<>>
                  THEN [path |-> get_latest(entries, S_eppm)[1].path]
                  ELSE [error |-> "NoDefaultAvailable", directory |-> DEFAULT_SCHEMA_DIR]
    IN  IF sp = <<>> THEN latest
        ELSE IF specifier = <<>> /\ "error" \in DOMAIN resolve_given(entries, files, sp)
             THEN latest
             ELSE resolve_given(entries, files, sp)

\* resolve_schema_path; entries is what get_registry() holds
resolve_schema_path(entries, files, cfg, specifier) ==
    LET sp == IF specifier = <<>> THEN get_default_schema(cfg) ELSE specifier
    IN  IF sp = <<>>
        THEN IF get_latest(entries, S_eppm) # <<>>
             THEN [path |-> get_latest(entries, S_eppm)[1].path]
             ELSE [error |-> "NoDefaultAvailable", directory |-> DEFAULT_SCHEMA_DIR]
        ELSE resolve_given(entries, files, sp)

(***************************************************************************)
(* Config commands: cmd_config and the remote config tools.                *)
(***************************************************************************)
\* config["default_schema"] = value
DictPut(d, value) ==
    [k \in DOMAIN d \cup {"default_schema"} |->
        IF k = "default_schema" THEN value ELSE d[k]]

\* del config["default_schema"]
DictDel(d) == [k \in DOMAIN d \ {"default_schema"} |-> d[k]]

\* cmd_config set-default storing the specifier without validating it
cmd_config_set_default_unchecked(entries, files, cfg, spec) ==
    [config |-> <<DictPut(load_config(cfg), spec)>>,
     out |-> [default_schema |-> spec]]

\* cmd_config set-default: the config file afterwards and what is reported
cmd_config_set_default(entries, files, cfg, spec) ==
    IF SchemaRegistry_get(entries, spec) = <<>>
    THEN IF SuffixIsXml(spec) /\ PathExists(files, spec)
         THEN [config |-> <<DictPut(load_config(cfg), spec)>>,
               out |-> [default_schema |-> spec]]
         ELSE [config |-> cfg,
               out |-> [error |-> "SchemaNotFound", exit |-> 1,
                        available |-> available_keys(entries)]]
    ELSE [config |-> <<DictPut(load_config(cfg), spec)>>,
          out |-> [default_schema |-> spec]]

\* config_set_default writing the config before it validates the specifier
config_set_default_writefirst(entries, cfg, spec) ==
    IF SchemaRegistry_get(entries, spec) = <<>>
    THEN [config |-> <<DictPut(load_config(cfg), spec)>>,
          out |-> [error |-> "SchemaNotFound",
                   available |-> available_keys(entries)]]
    ELSE [config |-> <<DictPut(load_config(cfg), spec)>>,
          out |-> [success |-> TRUE, default_schema |-> spec]]

\* the remote tool config_set_default
config_set_default(entries, cfg, spec) ==
    IF SchemaRegistry_get(entries, spec) = <<>>
    THEN [config |-> cfg,
          out |-> [error |-> "SchemaNotFound",
                   available |-> available_keys(entries)]]
    ELSE [config |-> <<DictPut(load_config(cfg), spec)>>,
          out |-> [success |-> TRUE, default_schema |-> spec]]

\* cmd_config clear storing an empty default instead of deleting the key
cmd_config_clear_emptied(cfg) ==
    IF "default_schema" \in DOMAIN load_config(cfg)
    THEN [config |-> <<DictPut(load_config(cfg), <<>>)>>,
          out |-> [cleared |-> TRUE]]
    ELSE [config |-> cfg, out |-> [cleared |-> FALSE]]

\* cmd_config clear
cmd_config_clear(cfg) ==
    IF "default_schema" \in DOMAIN load_config(cfg)
    THEN [config |-> IF DOMAIN DictDel(load_config(cfg)) # {}
                     THEN <<DictDel(load_config(cfg))>> ELSE <<>>,
          out |-> [cleared |-> TRUE]]
    ELSE [config |-> cfg, out |-> [cleared |-> FALSE]]

\* the remote tool config_clear_default
config_clear_default(cfg) ==
    IF "default_schema" \in DOMAIN load_config(cfg)
    THEN [config |-> IF DOMAIN DictDel(load_config(cfg)) # {}
                     THEN <<DictDel(load_config(cfg))>> ELSE <<>>,
          out |-> [success |-> TRUE, cleared |-> TRUE]]
    ELSE [config |-> cfg, out |-> [success |-> TRUE, cleared |-> FALSE]]

(***************************************************************************)
(* The schema directories and specifiers the registry commands are run on. *)
(***************************************************************************)
F_eppm_24_12 == <<101, 112, 112, 109, 95, 50, 52, 95, 49, 50, 95, 115, 99, 104, 101, 109, 97, 46, 120, 109, 108>>  \* "eppm_24_12_schema.xml"
F_eppm_23_04 == <<101, 112, 112, 109, 95, 50, 51, 95, 48, 52, 95, 115, 99, 104, 101, 109, 97, 46, 120, 109, 108>>  \* "eppm_23_04_schema.xml"
F_ppm_25_01 == <<112, 112, 109, 95, 50, 53, 95, 48, 49, 95, 115, 99, 104, 101, 109, 97, 46, 120, 109, 108>>  \* "ppm_25_01_schema.xml"
\* "eppm_01_00_schema.xml" with its four digits written U+0660 U+0661, U+0660 U+0660
F_eppm_01_00_arabic == <<101, 112, 112, 109, 95, 1632, 1633, 95, 1632, 1632, 95, 115, 99, 104, 101, 109, 97, 46, 120, 109, 108>>
F_EPPM_24_12_upper == <<69, 80, 80, 77, 95, 50, 52, 95, 49, 50, 95, 83, 67, 72, 69, 77, 65, 46, 88, 77, 76>>  \* "EPPM_24_12_SCHEMA.XML"
F_readme == <<114, 101, 97, 100, 109, 101, 46, 116, 120, 116>>  \* "readme.txt"
\* "eppm_24_12_schema.xml" followed by a newline character
F_eppm_24_12_newline == F_eppm_24_12 \o <<10>>

FileNames ==
    {F_eppm_24_12, F_eppm_23_04, F_ppm_25_01, F_eppm_01_00_arabic,
     F_EPPM_24_12_upper, F_readme, F_eppm_24_12_newline}

\* sub-directories: "sub", holding a schema file, and one named as a schema file
D_sub == [name |-> <<115, 117, 98>>, files |-> {F_eppm_23_04}]
D_ppm_25_01 == [name |-> F_ppm_25_01, files |-> {}]
SubDirs == {D_sub, D_ppm_25_01}

\* the states the schema directory can be in: missing, or holding at most
\* MaxFiles paths with distinct names
SchemaDirs ==
    {[files |-> {}, dir |-> [exists |-> FALSE, subdirs |-> {}]]} \cup
    {[files |-> fs, dir |-> [exists |-> TRUE, subdirs |-> ds]] :
        <<fs, ds>> \in {x \in (SUBSET FileNames) \X (SUBSET SubDirs) :
                          /\ Cardinality(x[1]) + Cardinality(x[2]) <= MaxFiles
                          /\ \A d \in x[2] : d.name \notin x[1]}}

V_24_12 == <<50, 52, 46, 49, 50>>                       \* "24.12"
V_99_99 == <<57, 57, 46, 57, 57>>                       \* "99.99"
V_01_00_arabic == <<1632, 1633, 46, 1632, 1632>>        \* "01.00" in U+0660..
BareVersions == {V_24_12, V_99_99, V_01_00_arabic}

Specifiers ==
    BareVersions \cup
    {<<101, 112, 112, 109, 58, 50, 52, 46, 49, 50>>,    \* "eppm:24.12"
     <<69, 80, 80, 77, 58, 50, 52, 46, 49, 50>>,        \* "EPPM:24.12"
     <<112, 112, 109, 58, 50, 53, 46, 48, 49>>,         \* "ppm:25.01"
     DEFAULT_SCHEMA_DIR \o F_eppm_23_04,                \* "schemas/eppm_23_04_schema.xml"
     <<110, 111, 102, 105, 108, 101, 46, 120, 109, 108>>,  \* "nofile.xml"
     S_xml}                                             \* ".xml"

Applications == {S_eppm, S_ppm}

\* the config file when the process starts: absent, or an object with a key
\* other than default_schema ({"editor": "vi"})
C_other == [editor |-> <<118, 105>>]
Configs == {<<>>, <<C_other>>}

\* schema_dir.iterdir(): the paths directly inside the directory
iterdir ==
    {[name |-> n, is_file |-> TRUE] : n \in dirFiles} \cup
    {[name |-> d.name, is_file |-> FALSE] : d \in schemaDir.subdirs}

\* the orders in which a scan can meet the paths; no scan is made once the
\* process holds a registry
ScanOrders == IF registry = <<>> THEN Orders(iterdir) ELSE {<<>>}

\* get_registry() building a new registry at every call
Entries_rescan(order) ==
    SchemaRegistry_init(schemaDir.exists, CHOOSE o \in Orders(iterdir) : TRUE)

\* get_registry(): the entries of the global registry, scanned from the
\* directory, listed in `order`, when the process has no registry yet
Entries(order) ==
    IF registry = <<>> THEN SchemaRegistry_init(schemaDir.exists, order)
    ELSE registry[1]

ResolveSchemaPath ==
    /\ result = Idle
    /\ \E order \in ScanOrders, spec \in Specifiers \cup {<<>>} :
          /\ registry' = <<Entries(order)>>
          /\ result' = [op |-> "resolve_schema_path", arg |-> spec,
                        out |-> resolve_schema_path(Entries(order), dirFiles,
                                                    config, spec)]
    /\ UNCHANGED <<schema, schema2, dirFiles, schemaDir, config>>

GetLatest ==
    /\ result = Idle
    /\ \E order \in ScanOrders, app \in Applications :
          /\ registry' = <<Entries(order)>>
          /\ result' = [op |-> "get_latest", arg |-> app,
                        out |-> get_latest(Entries(order), app)]
    /\ UNCHANGED <<schema, schema2, dirFiles, schemaDir, config>>

CmdConfigSetDefault ==
    /\ result = Idle
    /\ \E order \in ScanOrders, spec \in Specifiers :
          LET r == cmd_config_set_default(Entries(order), dirFiles, config, spec)
          IN  /\ registry' = <<Entries(order)>>
              /\ config' = r.config
              /\ result' = [op |-> "cmd_config_set_default", arg |-> spec,
                            out |-> r.out]
    /\ UNCHANGED <<schema, schema2, dirFiles, schemaDir>>

ToolConfigSetDefault ==
    /\ result = Idle
    /\ \E order \in ScanOrders, spec \in Specifiers :
          LET r == config_set_default(Entries(order), config, spec)
          IN  /\ registry' = <<Entries(order)>>
              /\ config' = r.config
              /\ result' = [op |-> "config_set_default", arg |-> spec,
                            out |-> r.out]
    /\ UNCHANGED <<schema, schema2, dirFiles, schemaDir>>

CmdConfigClear ==
    /\ result = Idle
    /\ \E order \in ScanOrders :
          /\ registry' = <<Entries(order)>>
          /\ config' = cmd_config_clear(config).config
          /\ result' = [op |-> "cmd_config_clear",
                        out |-> cmd_config_clear(config).out]
    /\ UNCHANGED <<schema, schema2, dirFiles, schemaDir>>

ToolConfigClearDefault ==
    /\ result = Idle
    /\ config' = config_clear_default(config).config
    /\ result' = [op |-> "config_clear_default",
                  out |-> config_clear_default(config).out]
    /\ UNCHANGED <<schema, schema2, dirFiles, schemaDir, registry>>

\* the tool server has returned the result and waits for the next call
ToolReturn ==
    /\ result # Idle
    /\ result' = Idle
    /\ UNCHANGED <<schema, schema2, dirFiles, schemaDir, config, registry>>

InitRegistry ==
    /\ schema = EmptySchema
    /\ schema2 = EmptySchema
    /\ \E d \in SchemaDirs : dirFiles = d.files /\ schemaDir = d.dir
    /\ config \in Configs
    /\ registry = <<>>
    /\ result = Idle

NextRegistry ==
    \/ ResolveSchemaPath
    \/ GetLatest
    \/ CmdConfigSetDefault
    \/ ToolConfigSetDefault
    \/ CmdConfigClear
    \/ ToolConfigClearDefault
    \/ ToolReturn
    \/ Exit

SpecRegistry == InitRegistry /\ [][NextRegistry]_vars

(***************************************************************************)
(* One process serving calls while schema files come and go.               *)
(***************************************************************************)
ProcessFiles == {F_eppm_24_12, F_eppm_23_04, F_ppm_25_01}

\* the remote tool list_schemas
ToolListSchemas ==
    /\ result = Idle
    /\ \E order \in ScanOrders :
          /\ registry' = <<Entries(order)>>
          /\ result' = [op |-> "list_schemas", out |-> list_schemas(Entries(order))]
    /\ UNCHANGED <<schema, schema2, dirFiles, schemaDir, config>>

\* a schema file is put into the schema directory between two calls
AddFile ==
    /\ result = Idle
    /\ Cardinality(dirFiles) < MaxFiles
    /\ \E n \in ProcessFiles \ dirFiles : dirFiles' = dirFiles \cup {n}
    /\ UNCHANGED <<schema, schema2, schemaDir, config, registry, result>>

\* a schema file is removed from the schema directory between two calls
RemoveFile ==
    /\ result = Idle
    /\ \E n \in dirFiles : dirFiles' = dirFiles \ {n}
    /\ UNCHANGED <<schema, schema2, schemaDir, config, registry, result>>

InitProcess ==
    /\ schema = EmptySchema
    /\ schema2 = EmptySchema
    /\ dirFiles \in {fs \in SUBSET ProcessFiles : Cardinality(fs) <= MaxFiles}
    /\ schemaDir = [exists |-> TRUE, subdirs |-> {}]
    /\ config = <<>>
    /\ registry = <<>>
    /\ result = Idle

NextProcess ==
    \/ ToolListSchemas
    \/ ResolveSchemaPath
    \/ CmdConfigSetDefault
    \/ AddFile
    \/ RemoveFile
    \/ ToolReturn
    \/ Exit

SpecProcess == InitProcess /\ [][NextProcess]_vars

(***************************************************************************)
(* The remote tools that load a schema by specifier.                       *)
(***************************************************************************)
\* Schema.from_xml(specifier): `content` is what ET.parse finds in the file,
\* <<>> for a document that is not well-formed, else <<root>>.  The outcome is
\* the exception raised or the Schema.
from_xml(entries, files, cfg, specifier, content) ==
    LET r == resolve_schema_path(entries, files, cfg, specifier)
    IN  IF "error" \in DOMAIN r
        THEN [raised |-> "ValueError", error |-> r.error]
        ELSE IF content = <<>>
             THEN [raised |-> "ParseError"]
             ELSE [schema |-> Schema_from_xml(content[1]), source_path |-> r.path]

\* the remote tool get_schema_info
get_schema_info(entries, files, cfg, specifier, content) ==
    LET s == from_xml(entries, files, cfg, specifier, content)
    IN  IF "raised" \in DOMAIN s THEN s
        ELSE [returned |-> [version |-> s.schema.version,
                            dbtype |-> s.schema.dbtype,
                            build_version |-> s.schema.build_version,
                            min_pro_version |-> s.schema.min_pro_version,
                            table_count |-> Len(s.schema.tables),
                            source_path |-> s.source_path]]

\* the remote tool describe_table called with a schema specifier
describe_table_of(entries, files, cfg, table, specifier, content) ==
    LET s == from_xml(entries, files, cfg, specifier, content)
    IN  IF "raised" \in DOMAIN s THEN s
        ELSE [returned |-> describe_table(s.schema, table)]

\* what the schema files hold: a document that is not well-formed, a document
\* without tables, a document with the table "T"
Contents ==
    {<<>>,
     <<Root(<<>>)>>,
     <<Root(<<[tag |-> "TABLE", attrs |-> [NAME |-> <<84>>], children |-> <<>>]>>)>>}

ToolTables == {<<84>>, <<90>>}                          \* "T", "Z"

ToolGetSchemaInfo ==
    /\ result = Idle
    /\ \E order \in ScanOrders, spec \in Specifiers \cup {<<>>}, content \in Contents :
          /\ registry' = <<Entries(order)>>
          /\ result' = [op |-> "get_schema_info", arg |-> spec,
                        out |-> get_schema_info(Entries(order), dirFiles, config,
                                                spec, content)]
    /\ UNCHANGED <<schema, schema2, dirFiles, schemaDir, config>>

ToolDescribeTable ==
    /\ result = Idle
    /\ \E order \in ScanOrders, spec \in Specifiers \cup {<<>>}, content \in Contents,
          table \in ToolTables :
          /\ registry' = <<Entries(order)>>
          /\ result' = [op |-> "describe_table_of", arg |-> spec, table |-> table,
                        out |-> describe_table_of(Entries(order), dirFiles, config,
                                                  table, spec, content)]
    /\ UNCHANGED <<schema, schema2, dirFiles, schemaDir, config>>

InitTool ==
    /\ schema = EmptySchema
    /\ schema2 = EmptySchema
    /\ \E d \in SchemaDirs : dirFiles = d.files /\ schemaDir = d.dir
    /\ config = <<>>
    /\ registry = <<>>
    /\ result = Idle

NextTool ==
    \/ ToolGetSchemaInfo
    \/ ToolDescribeTable
    \/ ToolReturn

SpecTool == InitTool /\ [][NextTool]_vars

(***************************************************************************)
(* Parsing: the documents Schema.from_xml is run on.                       *)
(***************************************************************************)
\* an element without attributes and without children
Bare(tag) == [tag |-> tag, attrs |-> <<>>, children |-> <<>>]

\* the child elements of TABLE: each kind with no attribute and with its
\* attributes set, a key that is not FOREIGN but carries a target, and an
\* element the parser does not know
ChildElems ==
    {Bare("FIELD"),
     [tag |-> "FIELD",
      attrs |-> [NAME |-> <<102>>, DATATYPE |-> <<105, 110, 116>>,
                 CHARLENGTH |-> <<56>>, DATAPRECISION |-> <<57>>,
                 DATASCALE |-> <<50>>, NOTNULL |-> <<89>>, DEFAULT |-> <<48>>,
                 DESC |-> <<97, 32, 66>>, IDCOLUMN |-> <<89>>],
      children |-> <<>>],
     Bare("INDEX"),
     [tag |-> "INDEX",
      attrs |-> [NAME |-> <<105>>, FIELD |-> <<102>>,
                 UNIQUENESS |-> <<85, 78, 73, 81, 85, 69>>,
                 TABLESPACE |-> <<116, 115>>],
      children |-> <<>>],
     Bare("CONSTRAINT"),
     [tag |-> "CONSTRAINT",
      attrs |-> [NAME |-> <<112, 107>>, TYPE |-> S_PRIMARY, FIELDS |-> <<102>>,
                 TARGETTABLE |-> <<66>>, TARGETFIELDS |-> <<103>>,
                 DELETERULE |-> <<67>>],
      children |-> <<>>],
     ForeignElem(<<102, 107>>, <<66>>),
     [tag |-> "TRIGGER",
      attrs |-> [NAME |-> <<116>>, SET |-> <<66, 69, 70, 79, 82, 69>>,
                 TARGET |-> <<73>>, DESC |-> <<100>>],
      children |-> <<>>],
     Bare("COMMENT")}

\* the TABLE elements: without attributes, named "t", and named "T" with the
\* six attributes set
TableElems(k) ==
    {[tag |-> "TABLE", attrs |-> a, children |-> cs] :
        a \in {<<>>,
               [NAME |-> <<116>>],
               [NAME |-> <<84>>, DESC |-> <<100>>, TITLE |-> <<116>>,
                TABLETYPE |-> <<86, 73, 69, 87>>, TABLESPACE |-> <<116, 115>>,
                ORDINAL |-> <<49>>]},
        cs \in [1..k -> ChildElems]}

\* sequences of exactly n TABLE elements holding at most b children in all
RECURSIVE TableElemSeqs(_, _)
TableElemSeqs(n, b) ==
    IF n = 0 THEN {<<>>}
    ELSE UNION {{<<t>> \o d : t \in TableElems(k), d \in TableElemSeqs(n - 1, b - k)} :
                k \in 0..b}

\* the attributes of the root: none, or the four the parser reads
RootAttrs ==
    {<<>>,
     [VERSION |-> <<49>>, DBTYPE |-> <<111, 114, 97>>,
      BUILD_VERSION_ID |-> <<55>>, MIN_PRO_VERSION |-> <<50>>]}

\* the document roots: TABLE children, or a single child that is no TABLE
Documents ==
    {[tag |-> "DATABASE", attrs |-> a, children |-> cs] :
        a \in RootAttrs,
        cs \in {<<Bare("COMMENT")>>} \cup
               UNION {TableElemSeqs(n, MaxElems - n) : n \in 0..MaxElems}}

\* Schema.from_xml: the document at the resolved path is parsed
FromXml ==
    /\ result = Idle
    /\ \E root \in Documents :
          /\ schema' = Schema_from_xml(root)
          /\ result' = [op |-> "from_xml", arg |-> root]
    /\ UNCHANGED <<schema2, dirFiles, schemaDir, config, registry>>

\* the process ends: the Schema it built is gone with it
ExitParse ==
    /\ result # Idle
    /\ result' = Idle
    /\ schema' = EmptySchema
    /\ UNCHANGED <<schema2, dirFiles, schemaDir, config, registry>>

InitParse ==
    /\ schema = EmptySchema
    /\ schema2 = EmptySchema
    /\ dirFiles = {}
    /\ schemaDir = [exists |-> TRUE, subdirs |-> {}]
    /\ config = <<>>
    /\ registry = <<>>
    /\ result = Idle

NextParse ==
    \/ FromXml
    \/ ExitParse

SpecParse == InitParse /\ [][NextParse]_vars

(***************************************************************************)
(* What the claims mean by "ignoring case", stated with lower-casing.      *)
(***************************************************************************)
EqIgnoreCase(s, t) == Lower(s) = Lower(t)

ContainsIgnoreCase(p, s) == Contains(Lower(p), Lower(s))

\* how many times x occurs in the list
Count(list, x) == Cardinality({i \in 1..Len(list) : list[i] = x})

\* the table of the schema stored under exactly this name
TableNamed(s, name) == (CHOOSE i \in 1..Len(s.tables) : s.tables[i].name = name)

(***************************************************************************)
(* C1: get_table is case-insensitive.  A lookup of M fails exactly when no *)
(* stored table name equals M ignoring case, and when exactly one stored   *)
(* name equals M ignoring case (however that name is cased) the lookup     *)
(* returns that table.                                                     *)
(***************************************************************************)
C1_GetTableCaseInsensitive ==
    result.op = "describe_table" =>
        LET matches == {i \in 1..Len(schema.tables) :
                           EqIgnoreCase(schema.tables[i].name, result.arg)}
        IN  /\ (matches = {}) <=> ("error" \in DOMAIN result.out)
            /\ \A i \in matches :
                  Cardinality(matches) = 1 =>
                      /\ "error" \notin DOMAIN result.out
                      /\ result.out.name = schema.tables[i].name
                      /\ result.out.constraints = schema.tables[i].constraints

(***************************************************************************)
(* C2: search_tables(pattern) returns exactly the tables whose name        *)
(* contains pattern ignoring case: each of them once, and no other.        *)
(***************************************************************************)
C2_SearchTablesCaseInsensitive ==
    result.op = "search_table" =>
        LET names == [i \in 1..Len(result.out.tables) |-> result.out.tables[i].name]
        IN  /\ \A i \in 1..Len(schema.tables) :
                  Count(names, schema.tables[i].name) =
                      IF ContainsIgnoreCase(result.arg, schema.tables[i].name)
                      THEN 1 ELSE 0
            /\ \A i \in 1..Len(names) :
                  \E j \in 1..Len(schema.tables) : schema.tables[j].name = names[i]

(***************************************************************************)
(* C3: search_relationships(pattern) returns one record per FOREIGN        *)
(* constraint for which pattern is a case-insensitive substring of at      *)
(* least one of owning table name, target table name, local fields, target *)
(* fields, constraint name; and no record for any other constraint.        *)
(***************************************************************************)
\* the constraints (table index, constraint index) that C3 says are returned
RelMatches(s, pattern) ==
    {ij \in UNION {{<<i, j>> : j \in 1..Len(s.tables[i].constraints)} :
                      i \in 1..Len(s.tables)} :
        LET t == s.tables[ij[1]]
            c == t.constraints[ij[2]]
        IN  /\ c.type = S_FOREIGN
            /\ \/ ContainsIgnoreCase(pattern, t.name)
               \/ ContainsIgnoreCase(pattern, c.target_table)
               \/ ContainsIgnoreCase(pattern, c.fields)
               \/ ContainsIgnoreCase(pattern, c.target_fields)
               \/ ContainsIgnoreCase(pattern, c.name)}

\* the record C3 says is returned for constraint j of table i
RelRecord(s, ij) ==
    [source_table |-> s.tables[ij[1]].name,
     constraint |-> s.tables[ij[1]].constraints[ij[2]].name,
     fields |-> s.tables[ij[1]].constraints[ij[2]].fields,
     target_table |-> s.tables[ij[1]].constraints[ij[2]].target_table,
     target_fields |-> s.tables[ij[1]].constraints[ij[2]].target_fields]

C3_SearchRelationshipsAnyOfFive ==
    result.op = "search_rel" =>
        LET got == result.out.relationships
            want == RelMatches(schema, result.arg)
        IN  /\ Len(got) = Cardinality(want)
            /\ \A ij \in want :
                  Count(got, RelRecord(schema, ij)) =
                      Cardinality({kl \in want :
                                      RelRecord(schema, kl) = RelRecord(schema, ij)})

\* pattern "a" returns exactly the foreign key FA of table B (target B), which
\* matches on its constraint name alone, and not the foreign key K of the same
\* table, which matches on none of the five
C3_Witness ==
    /\ result.op = "search_rel"
    /\ result.arg = <<97>>
    /\ Len(result.out.relationships) = 1
    /\ result.out.relationships[1].source_table = <<66>>
    /\ result.out.relationships[1].constraint = <<70, 65>>
    /\ result.out.relationships[1].target_table = <<66>>
    /\ \E i \in 1..Len(schema.tables) :
          /\ schema.tables[i].name = <<66>>
          /\ \E j \in 1..Len(schema.tables[i].constraints) :
                /\ schema.tables[i].constraints[j].type = S_FOREIGN
                /\ schema.tables[i].constraints[j].name = <<75>>

(***************************************************************************)
(* C4: for every table T the incoming list of relationships(T) holds no    *)
(* entry whose owning table is T, even when T owns a FOREIGN constraint    *)
(* targeting T, and the outgoing list holds one entry for every FOREIGN    *)
(* constraint T owns, self-references included; in the CLI command and in  *)
(* the remote tool.                                                        *)
(***************************************************************************)
\* the indexes of the FOREIGN constraints of table t
ForeignOf(t) == {j \in 1..Len(t.constraints) : t.constraints[j].type = S_FOREIGN}

\* the outgoing entry C4 expects for a constraint
OutRecord(c) ==
    [constraint |-> c.name, fields |-> c.fields,
     references_table |-> c.target_table, references_fields |-> c.target_fields]

\* the lists `out` computed for table number i are as C4 says
RelOK4(s, i, out) ==
    LET t == s.tables[i]
    IN  /\ \A k \in 1..Len(out.incoming) : out.incoming[k].table # t.name
        /\ Len(out.outgoing) = Cardinality(ForeignOf(t))
        /\ \A j \in ForeignOf(t) :
              Count(out.outgoing, OutRecord(t.constraints[j])) =
                  Cardinality({l \in ForeignOf(t) :
                      OutRecord(t.constraints[l]) = OutRecord(t.constraints[j])})

C4_IncomingExcludesSelfOutgoingKeepsIt ==
    /\ (/\ result.op \in {"cmd_relationships", "get_relationships"}
        /\ "error" \notin DOMAIN result.out)
       => RelOK4(schema, TableNamed(schema, result.out.table), result.out)
    /\ \A i \in 1..Len(schema.tables) :
          /\ RelOK4(schema, i,
                    [outgoing |-> cli_outgoing(schema.tables[i]),
                     incoming |-> cli_incoming(schema, schema.tables[i])])
          /\ RelOK4(schema, i,
                    [outgoing |-> mcp_outgoing(schema.tables[i]),
                     incoming |-> mcp_incoming(schema, schema.tables[i])])

\* table B owns the foreign key FA targeting B: relationships(B) reports it as
\* outgoing and reports nothing incoming
C4_Witness ==
    /\ result.op \in {"cmd_relationships", "get_relationships"}
    /\ "error" \notin DOMAIN result.out
    /\ result.out.table = <<66>>
    /\ Len(result.out.outgoing) = 1
    /\ result.out.outgoing[1].references_table = <<66>>
    /\ result.out.incoming = <<>>

(***************************************************************************)
(* C5: for every table T the incoming list of relationships(T) holds       *)
(* exactly one entry for each FOREIGN constraint owned by a table other    *)
(* than T whose target table name equals T's name ignoring case, and no    *)
(* entry for any other constraint.                                         *)
(***************************************************************************)
\* the constraints (table index, constraint index) C5 counts for table number i
IncomingWant(s, i) ==
    {kl \in UNION {{<<k, l>> : l \in 1..Len(s.tables[k].constraints)} :
                      k \in 1..Len(s.tables)} :
        /\ kl[1] # i
        /\ s.tables[kl[1]].constraints[kl[2]].type = S_FOREIGN
        /\ EqIgnoreCase(s.tables[kl[1]].constraints[kl[2]].target_table,
                        s.tables[i].name)}

\* the incoming entry C5 expects for constraint l of table k
InRecord(s, kl) ==
    [table |-> s.tables[kl[1]].name,
     constraint |-> s.tables[kl[1]].constraints[kl[2]].name,
     fields |-> s.tables[kl[1]].constraints[kl[2]].fields,
     references_fields |-> s.tables[kl[1]].constraints[kl[2]].target_fields]

\* the incoming list computed for table number i is as C5 says
RelOK5(s, i, incoming) ==
    LET want == IncomingWant(s, i)
    IN  /\ Len(incoming) = Cardinality(want)
        /\ \A kl \in want :
              Count(incoming, InRecord(s, kl)) =
                  Cardinality({mn \in want : InRecord(s, mn) = InRecord(s, kl)})

C5_IncomingIsEveryForeignKeyOfOthers ==
    /\ (/\ result.op \in {"cmd_relationships", "get_relationships"}
        /\ "error" \notin DOMAIN result.out)
       => RelOK5(schema, TableNamed(schema, result.out.table), result.out.incoming)
    /\ \A i \in 1..Len(schema.tables) :
          /\ RelOK5(schema, i, cli_incoming(schema, schema.tables[i]))
          /\ RelOK5(schema, i, mcp_incoming(schema, schema.tables[i]))

\* relationships of the table stored as "AB": table B owns the foreign key K
\* whose target is written "ab" and a PRIMARY constraint with the same target;
\* the foreign key is the one incoming entry
C5_Witness ==
    /\ result.op \in {"cmd_relationships", "get_relationships"}
    /\ "error" \notin DOMAIN result.out
    /\ result.out.table = <<65, 66>>
    /\ Len(result.out.incoming) = 1
    /\ result.out.incoming[1].table = <<66>>
    /\ result.out.incoming[1].constraint = <<75>>
    /\ \E i \in 1..Len(schema.tables) :
          /\ schema.tables[i].name = <<66>>
          /\ \E j \in 1..Len(schema.tables[i].constraints) :
                /\ schema.tables[i].constraints[j].type = S_PRIMARY
                /\ schema.tables[i].constraints[j].target_table = <<97, 98>>

(***************************************************************************)
(* C6: compare(A, B) reports a table name present in both schemas as       *)
(* modified if and only if the set of field names of that table in A       *)
(* differs from the set in B; the entry lists the field names in B not A   *)
(* as added and those in A not B as removed, each sorted ascending; a      *)
(* table whose field names are the same but whose field attributes differ  *)
(* is not reported.                                                        *)
(***************************************************************************)
CompareOps == {"compare_schemas", "cmd_compare_json", "cmd_compare_text"}

\* the field names of the table called name, read off the schema
NamesIn(s, name) ==
    UNION {{s.tables[i].fields[k].name : k \in 1..Len(s.tables[i].fields)} :
              i \in {i \in 1..Len(s.tables) : s.tables[i].name = name}}

\* the names stored in a schema
StoredNames(s) == {s.tables[i].name : i \in 1..Len(s.tables)}

\* strictly ascending in the order of strings
Ascending(list) == \A i, j \in 1..Len(list) : i < j => LexLess(list[i], list[j])

C6_ModifiedIffFieldNameSetsDiffer ==
    result.op \in CompareOps =>
        LET mod == result.out.modified_tables
            common == StoredNames(schema) \cap StoredNames(schema2)
        IN  /\ \A name \in common :
                  (NamesIn(schema, name) # NamesIn(schema2, name))
                      <=> (\E i \in 1..Len(mod) : mod[i].table = name)
            /\ \A i \in 1..Len(mod) :
                  /\ mod[i].table \in common
                  /\ \A j \in 1..Len(mod) : mod[j].table = mod[i].table => i = j
                  /\ Range(mod[i].added_fields) =
                        NamesIn(schema2, mod[i].table) \ NamesIn(schema, mod[i].table)
                  /\ Range(mod[i].removed_fields) =
                        NamesIn(schema, mod[i].table) \ NamesIn(schema2, mod[i].table)
                  /\ Ascending(mod[i].added_fields)
                  /\ Ascending(mod[i].removed_fields)

\* two tables are in both schemas: one lost a field and is the only one
\* reported, the other has the same field name with another datatype
C6_Witness ==
    /\ result.op \in CompareOps
    /\ Len(result.out.modified_tables) = 1
    /\ result.out.modified_tables[1].removed_fields # <<>>
    /\ \E i \in 1..Len(schema.tables), j \in 1..Len(schema2.tables) :
          /\ schema.tables[i].name = schema2.tables[j].name
          /\ schema.tables[i].name # result.out.modified_tables[1].table
          /\ schema.tables[i].fields # schema2.tables[j].fields
          /\ Len(schema.tables[i].fields) = 1

(***************************************************************************)
(* C7: comparing a schema with itself yields an empty added-tables list,   *)
(* an empty removed-tables list and an empty modified-tables list, also    *)
(* when a table has duplicate field names.                                 *)
(***************************************************************************)
C7_CompareWithItselfIsEmpty ==
    (result.op \in CompareOps /\ schema = schema2) =>
        /\ result.out.added_tables = <<>>
        /\ result.out.removed_tables = <<>>
        /\ result.out.modified_tables = <<>>

\* a schema whose table holds the field name f twice is compared with itself
C7_Witness ==
    /\ result.op \in CompareOps
    /\ schema = schema2
    /\ \E i \in 1..Len(schema.tables) :
          /\ Len(schema.tables[i].fields) = 2
          /\ schema.tables[i].fields[1].name = schema.tables[i].fields[2].name

(***************************************************************************)
(* Versions read as the pair (major, minor) of integers.                   *)
(***************************************************************************)
NumVersion(v) ==
    <<10 * DigitVal(v[1]) + DigitVal(v[2]), 10 * DigitVal(v[4]) + DigitVal(v[5])>>

NumLess(v, w) ==
    \/ NumVersion(v)[1] < NumVersion(w)[1]
    \/ (NumVersion(v)[1] = NumVersion(w)[1] /\ NumVersion(v)[2] < NumVersion(w)[2])

\* the entries of the registry the process holds, for one application
EntriesOfApp(app) == {e \in Range(registry[1]) : e.application = app}

\* every version in the schema directory is written with ASCII digits
AsciiVersionsOnly == F_eppm_01_00_arabic \notin dirFiles

(***************************************************************************)
(* C8: latest(application) returns the entry of that application whose     *)
(* version, read as the pair (major, minor) of integers, is the greatest   *)
(* among the entries of that application, and none when the registry holds *)
(* no entry of that application.                                           *)
(***************************************************************************)
C8_LatestIsNumericallyGreatest ==
    result.op = "get_latest" =>
        /\ (EntriesOfApp(result.arg) = {}) <=> (result.out = <<>>)
        /\ EntriesOfApp(result.arg) # {} =>
              /\ result.out[1] \in EntriesOfApp(result.arg)
              /\ \A e \in EntriesOfApp(result.arg) :
                    ~NumLess(result.out[1].version, e.version)

\* C8 restricted to directories whose versions are written with ASCII digits,
\* where the order of the version strings is the numeric order
C8_OnAsciiVersions == AsciiVersionsOnly => C8_LatestIsNumericallyGreatest

(***************************************************************************)
(* C9: for every bare version V (two digits, dot, two digits), resolving V *)
(* gives the same outcome as resolving "eppm:" + V: the path of the entry  *)
(* registered under that key when there is one, a not-found failure in     *)
(* both cases when there is none.                                          *)
(***************************************************************************)
SameOutcome(a, b) ==
    IF "path" \in DOMAIN a
    THEN "path" \in DOMAIN b /\ a.path = b.path
    ELSE /\ "error" \in DOMAIN b
         /\ a.error = "SchemaNotFound"
         /\ b.error = "SchemaNotFound"

C9_BareVersionMeansEppm ==
    (result.op = "resolve_schema_path" /\ result.arg \in BareVersions) =>
        LET key == S_eppm \o <<58>> \o result.arg
            held == {e \in Range(registry[1]) : EntryKey(e) = key}
        IN  /\ SameOutcome(result.out,
                           resolve_schema_path(registry[1], dirFiles, config, key))
            /\ IF held = {}
               THEN "error" \in DOMAIN result.out
               ELSE /\ "path" \in DOMAIN result.out
                    /\ \E e \in held : result.out.path = e.path

\* "24.12" resolved to the file registered as eppm:24.12
C9_Witness ==
    /\ result.op = "resolve_schema_path"
    /\ result.arg = V_24_12
    /\ "path" \in DOMAIN result.out
    /\ result.out.path = DEFAULT_SCHEMA_DIR \o F_eppm_24_12

(***************************************************************************)
(* C10: resolving an empty or absent specifier: if the config holds a      *)
(* default schema specifier, that specifier is resolved; otherwise the     *)
(* path of the highest-version eppm entry is returned; otherwise (no eppm  *)
(* entry, even if ppm entries exist) the call fails with a no-default      *)
(* error naming the search directory.  A ppm entry is never selected.      *)
(***************************************************************************)
C10_EmptySpecifierFallbackOrder ==
    (result.op = "resolve_schema_path" /\ result.arg = <<>>) =>
        IF config # <<>> /\ "default_schema" \in DOMAIN config[1]
        THEN result.out = resolve_given(registry[1], dirFiles,
                                        config[1]["default_schema"])
        ELSE IF EntriesOfApp(S_eppm) # {}
             THEN /\ "path" \in DOMAIN result.out
                  /\ \E e \in EntriesOfApp(S_eppm) :
                        /\ result.out.path = e.path
                        /\ \A f \in EntriesOfApp(S_eppm) :
                              ~NumLess(e.version, f.version)
             ELSE result.out = [error |-> "NoDefaultAvailable",
                                directory |-> DEFAULT_SCHEMA_DIR]

\* C10 restricted to directories whose versions are written with ASCII digits
C10_OnAsciiVersions == AsciiVersionsOnly => C10_EmptySpecifierFallbackOrder

(***************************************************************************)
(* C11: a specifier that contains a path separator or ends in ".xml" is    *)
(* always treated as a direct file path and never looked up in the         *)
(* registry: resolve returns that path when the file exists and fails with *)
(* a file-not-found error when it does not; every other non-empty          *)
(* specifier is treated as a registry key.                                 *)
(***************************************************************************)
EndsInXml(s) == Len(s) >= 4 /\ SubSeq(s, Len(s) - 3, Len(s)) = <<46, 120, 109, 108>>

HasSeparator(s) == \E i \in 1..Len(s) : s[i] \in {47, 92}

C11_PathLikeSpecifierIsAFilePath ==
    (result.op = "resolve_schema_path" /\ result.arg # <<>>) =>
        IF EndsInXml(result.arg) \/ HasSeparator(result.arg)
        THEN IF PathExists(dirFiles, result.arg)
             THEN result.out = [path |-> result.arg]
             ELSE result.out = [error |-> "FileNotFound", specifier |-> result.arg]
        ELSE \/ /\ "path" \in DOMAIN result.out
                /\ \E e \in Range(registry[1]) : result.out.path = e.path
             \/ /\ "error" \in DOMAIN result.out
                /\ result.out.error = "SchemaNotFound"

\* C11 for every specifier but the file name ".xml" itself, which has no suffix
C11_OnNamedFiles == (result.op = "resolve_schema_path" /\ result.arg = S_xml)
                        \/ C11_PathLikeSpecifierIsAFilePath

(***************************************************************************)
(* C12: the registry key lookup of resolve ignores letter case (a key that *)
(* differs only in letter case from a registered key resolves to that      *)
(* entry's path); when the (possibly eppm-prefixed) key is not registered  *)
(* resolve fails with a not-found error that lists all registered keys     *)
(* whenever the registry is non-empty; it never returns a path for an      *)
(* unregistered key.                                                       *)
(***************************************************************************)
\* the key a specifier stands for: a bare version stands for "eppm:" + version
KeyOf(s) ==
    IF Len(s) = 5 /\ s[3] = 46 /\ \A i \in {1, 2, 4, 5} : IsDigit(s[i])
    THEN S_eppm \o <<58>> \o s ELSE s

RegisteredAs(s) == {e \in Range(registry[1]) : EqIgnoreCase(EntryKey(e), KeyOf(s))}

C12_KeyLookupIgnoresCaseAndMissListsKeys ==
    (/\ result.op = "resolve_schema_path" /\ result.arg # <<>>
     /\ ~LooksLikePath(result.arg)) =>
        IF RegisteredAs(result.arg) # {}
        THEN /\ "path" \in DOMAIN result.out
             /\ \E e \in RegisteredAs(result.arg) : result.out.path = e.path
        ELSE /\ "error" \in DOMAIN result.out
             /\ result.out.error = "SchemaNotFound"
             /\ Range(result.out.available) = {EntryKey(e) : e \in Range(registry[1])}
             /\ Len(result.out.available) = Len(registry[1])

\* "EPPM:24.12" resolved to the file registered under the key eppm:24.12
C12_Witness ==
    /\ result.op = "resolve_schema_path"
    /\ result.arg = <<69, 80, 80, 77, 58, 50, 52, 46, 49, 50>>
    /\ "path" \in DOMAIN result.out
    /\ \E e \in Range(registry[1]) :
          /\ EntryKey(e) = <<101, 112, 112, 109, 58, 50, 52, 46, 49, 50>>
          /\ result.out.path = e.path

(***************************************************************************)
(* C13: after a registry scan of a directory, every registry entry         *)
(* corresponds to a regular file located directly in that directory whose  *)
(* file name matches (eppm|ppm)_NN_NN_schema.xml ignoring case; the        *)
(* entry's application is the lower-cased prefix, its version is "NN.NN",  *)
(* and it is stored under the key application:version; files that do not   *)
(* match, sub-directories and files in sub-directories yield no entry, and *)
(* a missing directory yields an empty registry without error.             *)
(***************************************************************************)
\* name is app_NN_NN_schema.xml, ignoring case, for the prefix app
NamedAsSchemaOf(app, name) ==
    /\ Len(name) = Len(app) + 17
    /\ EqIgnoreCase(SubSeq(name, 1, Len(app)), app)
    /\ name[Len(app) + 1] = 95 /\ name[Len(app) + 4] = 95
    /\ \A i \in {2, 3, 5, 6} : IsDigit(name[Len(app) + i])
    /\ EqIgnoreCase(SubSeq(name, Len(app) + 7, Len(name)), S_tail)

\* the entry the claim describes for a file so named
EntryFor(app, name) ==
    [application |-> app,
     version |-> SubSeq(name, Len(app) + 2, Len(app) + 3) \o <<46>>
                 \o SubSeq(name, Len(app) + 5, Len(app) + 6),
     path |-> DEFAULT_SCHEMA_DIR \o name]

C13_EntriesAreMatchingRegularFiles ==
    registry # <<>> =>
        /\ \A i \in 1..Len(registry[1]) :
              \E name \in dirFiles, app \in {S_eppm, S_ppm} :
                  /\ NamedAsSchemaOf(app, name)
                  /\ registry[1][i] = EntryFor(app, name)
        /\ \A i, j \in 1..Len(registry[1]) :
              EntryKey(registry[1][i]) = EntryKey(registry[1][j]) => i = j
        /\ ~schemaDir.exists => registry[1] = <<>>

\* C13 for directories that hold no file whose name ends in a newline
C13_OnNamesWithoutNewline ==
    F_eppm_24_12_newline \notin dirFiles => C13_EntriesAreMatchingRegularFiles

(***************************************************************************)
(* C14: after a successful set-default followed by a clear (through the    *)
(* CLI config command or the remote config tools) the config file is       *)
(* either absent or holds an object without the default_schema key; no     *)
(* clear leaves default_schema present with an empty value, and the other  *)
(* keys already in the config survive the clear.                           *)
(***************************************************************************)
ClearOps == {"cmd_config_clear", "config_clear_default"}

C14_ClearLeavesNoDefaultAndKeepsOtherKeys ==
    [][(result = Idle /\ result'.op \in ClearOps) =>
          /\ config' = <<>> \/ "default_schema" \notin DOMAIN config'[1]
          /\ \A k \in DOMAIN load_config(config) \ {"default_schema"} :
                /\ config' # <<>>
                /\ k \in DOMAIN config'[1]
                /\ config'[1][k] = load_config(config)[k]]_vars

\* a clear has removed a default that a set-default had stored, next to the
\* other key of the config file
C14_Witness ==
    /\ result.op \in ClearOps
    /\ result.out.cleared
    /\ config = <<C_other>>

(***************************************************************************)
(* C15: parsing a well-formed document whose root has zero TABLE children  *)
(* succeeds and yields a Schema with an empty table collection, with the   *)
(* four top-level attributes (VERSION, DBTYPE, BUILD_VERSION_ID,           *)
(* MIN_PRO_VERSION) copied from the root and set to the empty string when  *)
(* absent.                                                                 *)
(***************************************************************************)
\* the value of an attribute of an element, the empty string when absent
AttrOrEmpty(elem, attr) ==
    IF attr \in DOMAIN elem.attrs THEN elem.attrs[attr] ELSE <<>>

NoTableChild(root) == \A i \in 1..Len(root.children) : root.children[i].tag # "TABLE"

C15_NoTableGivesEmptySchema ==
    (result.op = "from_xml" /\ NoTableChild(result.arg)) =>
        /\ schema.tables = <<>>
        /\ schema.version = AttrOrEmpty(result.arg, "VERSION")
        /\ schema.dbtype = AttrOrEmpty(result.arg, "DBTYPE")
        /\ schema.build_version = AttrOrEmpty(result.arg, "BUILD_VERSION_ID")
        /\ schema.min_pro_version = AttrOrEmpty(result.arg, "MIN_PRO_VERSION")

\* a document with a child that is no TABLE and no attribute on the root has
\* been parsed
C15_Witness ==
    /\ result.op = "from_xml"
    /\ result.arg.children = <<Bare("COMMENT")>>
    /\ result.arg.attrs = <<>>
    /\ schema.tables = <<>>
    /\ schema.version = <<>>

(***************************************************************************)
(* C16: for every parsed element (TABLE, FIELD, INDEX, CONSTRAINT,         *)
(* TRIGGER) each attribute present in the source is reproduced verbatim in *)
(* the record and each attribute missing from the source is recorded as    *)
(* the empty string, with exactly three exceptions: missing NOTNULL        *)
(* becomes "N", missing IDCOLUMN becomes "N", missing Index uniqueness     *)
(* becomes "NONUNIQUE"; no other record attribute receives a non-empty     *)
(* default, and a missing attribute never makes parsing fail.              *)
(***************************************************************************)
\* the value the claim gives an attribute: verbatim when present, else the
\* empty string but for the three exceptions
Recorded(elem, attr) ==
    IF attr \in DOMAIN elem.attrs THEN elem.attrs[attr]
    ELSE IF attr \in {"NOTNULL", "IDCOLUMN"} THEN <<78>>
    ELSE IF attr = "UNIQUENESS" THEN <<78, 79, 78, 85, 78, 73, 81, 85, 69>>
    ELSE <<>>

RecordedField(e) ==
    [name |-> Recorded(e, "NAME"), datatype |-> Recorded(e, "DATATYPE"),
     charlength |-> Recorded(e, "CHARLENGTH"),
     dataprecision |-> Recorded(e, "DATAPRECISION"),
     datascale |-> Recorded(e, "DATASCALE"), notnull |-> Recorded(e, "NOTNULL"),
     default |-> Recorded(e, "DEFAULT"), description |-> Recorded(e, "DESC"),
     idcolumn |-> Recorded(e, "IDCOLUMN")]

RecordedIndex(e) ==
    [name |-> Recorded(e, "NAME"), fields |-> Recorded(e, "FIELD"),
     uniqueness |-> Recorded(e, "UNIQUENESS"),
     tablespace |-> Recorded(e, "TABLESPACE")]

RecordedConstraint(e) ==
    [name |-> Recorded(e, "NAME"), type |-> Recorded(e, "TYPE"),
     fields |-> Recorded(e, "FIELDS"), target_table |-> Recorded(e, "TARGETTABLE"),
     target_fields |-> Recorded(e, "TARGETFIELDS"),
     delete_rule |-> Recorded(e, "DELETERULE")]

RecordedTrigger(e) ==
    [name |-> Recorded(e, "NAME"), set_type |-> Recorded(e, "SET"),
     target |-> Recorded(e, "TARGET"), description |-> Recorded(e, "DESC")]

\* the children of a TABLE element with one tag, each recorded by `rec`
RecordedChildren(e, tag, rec(_)) ==
    LET cs == SelectSeq(e.children, LAMBDA c : c.tag = tag)
    IN  [i \in 1..Len(cs) |-> rec(cs[i])]

\* the Table of a TABLE element; tabletype is what a missing TABLETYPE gives
RecordedTable(e, tabletype) ==
    [name |-> Recorded(e, "NAME"), description |-> Recorded(e, "DESC"),
     title |-> Recorded(e, "TITLE"),
     tabletype |-> IF "TABLETYPE" \in DOMAIN e.attrs THEN e.attrs["TABLETYPE"]
                   ELSE tabletype,
     tablespace |-> Recorded(e, "TABLESPACE"), ordinal |-> Recorded(e, "ORDINAL"),
     fields |-> RecordedChildren(e, "FIELD", RecordedField),
     indexes |-> RecordedChildren(e, "INDEX", RecordedIndex),
     constraints |-> RecordedChildren(e, "CONSTRAINT", RecordedConstraint),
     triggers |-> RecordedChildren(e, "TRIGGER", RecordedTrigger)]

TableChildren(root) == SelectSeq(root.children, LAMBDA c : c.tag = "TABLE")

\* every Table of the Schema is the record of a TABLE element of the document,
\* and a document with TABLE elements gives a Schema with tables
TablesRecorded(tabletype) ==
    /\ \A i \in 1..Len(schema.tables) :
          \E j \in 1..Len(TableChildren(result.arg)) :
              schema.tables[i] = RecordedTable(TableChildren(result.arg)[j], tabletype)
    /\ TableChildren(result.arg) # <<>> => schema.tables # <<>>

C16_MissingAttributesDefaultToEmpty ==
    result.op = "from_xml" => TablesRecorded(<<>>)

\* C16 with a fourth exception: a missing TABLETYPE becomes "NORMAL"
C16_WithTableTypeNormal ==
    result.op = "from_xml" => TablesRecorded(<<78, 79, 82, 77, 65, 76>>)

(***************************************************************************)
(* C17: in every parsed Schema, every constraint whose type is not FOREIGN *)
(* has an empty target_table and an empty target_fields, whatever          *)
(* attributes the source CONSTRAINT element carried.                       *)
(***************************************************************************)
C17_OnlyForeignKeysHaveTargets ==
    result.op = "from_xml" =>
        \A i \in 1..Len(schema.tables) :
            \A j \in 1..Len(schema.tables[i].constraints) :
                LET c == schema.tables[i].constraints[j]
                IN  c.type # <<70, 79, 82, 69, 73, 71, 78>> =>
                        c.target_table = <<>> /\ c.target_fields = <<>>

(***************************************************************************)
(* C18: in the remote-tool layer every error of a tool call (schema        *)
(* specifier not found, file not found, no default available, malformed    *)
(* document, table not found) is returned as an error-shaped result        *)
(* payload and is never raised as a fault out of the tool function.        *)
(***************************************************************************)
ToolOps == {"get_schema_info", "describe_table_of"}

C18_ToolErrorsAreReturnedPayloads ==
    result.op \in ToolOps => "returned" \in DOMAIN result.out

\* of the errors C18 names, the absent table is returned as a payload
C18_TableNotFoundIsReturned ==
    (/\ result.op = "describe_table_of"
     /\ "returned" \in DOMAIN result.out
     /\ result.table = <<90>>) => "error" \in DOMAIN result.out.returned

(***************************************************************************)
(* C19: a caller can always tell "not found" from "found but empty": a     *)
(* search (tables, fields or relationships) with zero matches succeeds     *)
(* with an empty collection and never an error, whereas a lookup of a      *)
(* table name that is absent (describe, relationships, fields filtered by  *)
(* table) yields a table-not-found error outcome that differs from the     *)
(* outcome for an existing table with no fields or no relationships.       *)
(***************************************************************************)
SearchOps == {"search_table", "search_field", "search_rel"}

LookupOps == {"describe_table", "cmd_relationships", "get_relationships", "get_fields"}

\* the outcome of a lookup is the table-not-found error
IsNotFound(r) ==
    IF r.op = "get_fields"
    THEN Len(r.out) = 1 /\ "error" \in DOMAIN r.out[1]
    ELSE "error" \in DOMAIN r.out

C19_NotFoundDiffersFromFoundButEmpty ==
    /\ result.op \in SearchOps => "error" \notin DOMAIN result.out
    /\ (result.op \in LookupOps /\ result.arg # <<>>) =>
          /\ (\E i \in 1..Len(schema.tables) : schema.tables[i].name = result.arg)
                => ~IsNotFound(result)
          /\ (\A i \in 1..Len(schema.tables) :
                 ~EqIgnoreCase(schema.tables[i].name, result.arg))
                => IsNotFound(result)

\* C19 for schemas whose table names are written in upper case
C19_OnUpperCaseNames ==
    (\A i \in 1..Len(schema.tables) :
        schema.tables[i].name = Upper(schema.tables[i].name))
        => C19_NotFoundDiffersFromFoundButEmpty

LastNamed(root, name) ==
    LET ts == TableChildren(root)
        at == {i \in 1..Len(ts) : AttrOrEmpty(ts[i], "NAME") = name}
    IN  ts[CHOOSE i \in at : \A j \in at : j <= i]

C21_LastTableOfANameWins ==
    result.op = "from_xml" =>
        LET ts == TableChildren(result.arg)
            names == {AttrOrEmpty(ts[i], "NAME") : i \in 1..Len(ts)}
        IN  /\ Len(schema.tables) = Cardinality(names)
            /\ \A n \in names :
                  \E i \in 1..Len(schema.tables) :
                      /\ schema.tables[i] = Table_from_xml(LastNamed(result.arg, n))
                      /\ \A j \in 1..Len(schema.tables) :
                            schema.tables[j].name = n => j = i

\* two different TABLE elements named "T" have been parsed into one table, the
\* second one
C21_Witness ==
    /\ result.op = "from_xml"
    /\ Len(result.arg.children) = 2
    /\ \A i \in 1..2 : /\ result.arg.children[i].tag = "TABLE"
                       /\ AttrOrEmpty(result.arg.children[i], "NAME") = <<84>>
    /\ result.arg.children[1] # result.arg.children[2]
    /\ schema.tables = <<Table_from_xml(result.arg.children[2])>>

(***************************************************************************)
(* C22: within one process the registry is constructed and its directory   *)
(* scanned at most once: every call of get_registry after the first        *)
(* returns the same registry with the same set of entries, so a schema     *)
(* file added to or removed from the search directory after the first call *)
(* changes neither the listing nor the outcome of resolving a registry key *)
(* for the rest of the process.                                            *)
(***************************************************************************)
\* the listing and the resolution of a key answer from the entries held
AnswersComeFromTheRegistryHeld ==
    /\ result.op = "list_schemas" =>
          {r.key : r \in Range(result.out)} = {EntryKey(e) : e \in Range(registry[1])}
    /\ (/\ result.op = "resolve_schema_path" /\ result.arg # <<>>
        /\ ~EndsInXml(result.arg) /\ ~HasSeparator(result.arg)) =>
          ("path" \in DOMAIN result.out <=> RegisteredAs(result.arg) # {})

\* the registry a process holds is never replaced by another one (it only goes
\* away with the process), and every answer comes from it
C22_RegistryScannedOncePerProcess ==
    [][/\ (registry # <<>> /\ registry' # <<>>) => registry' = registry
       /\ AnswersComeFromTheRegistryHeld']_vars

\* a key resolves to the path of a file that was removed after the scan, in a
\* process that holds the registry scanned before
C22_Witness ==
    /\ result.op = "resolve_schema_path"
    /\ "path" \in DOMAIN result.out
    /\ result.out.path = DEFAULT_SCHEMA_DIR \o F_eppm_24_12
    /\ F_eppm_24_12 \notin dirFiles
    /\ F_eppm_23_04 \in dirFiles
    /\ \A e \in Range(registry[1]) : e.path # DEFAULT_SCHEMA_DIR \o F_eppm_23_04

(***************************************************************************)
(* C23: round trip of the default: after set-default succeeds with a       *)
(* specifier S (CLI or remote tool), and with the registry and the file    *)
(* system unchanged, resolving with no specifier succeeds and returns the  *)
(* same path as resolving S explicitly; every specifier that set-default   *)
(* accepts is one that resolve later accepts.                              *)
(***************************************************************************)
\* the default a successful set-default has stored, <<>> when there is none
StoredDefault ==
    IF config # <<>> /\ "default_schema" \in DOMAIN config[1]
    THEN config[1]["default_schema"] ELSE <<>>

C23_StoredDefaultResolvesAsItself ==
    (/\ result.op = "resolve_schema_path" /\ result.arg = <<>>
     /\ StoredDefault # <<>>) =>
        /\ "path" \in DOMAIN result.out
        /\ result.out = resolve_schema_path(registry[1], dirFiles, config, StoredDefault)
        /\ \/ result.out.path = StoredDefault /\ PathExists(dirFiles, StoredDefault)
           \/ \E e \in RegisteredAs(StoredDefault) : result.out.path = e.path

\* the default "24.12" was stored and no specifier resolves to the eppm:24.12
\* file although a later eppm version is registered
C23_Witness ==
    /\ result.op = "resolve_schema_path"
    /\ result.arg = <<>>
    /\ StoredDefault = V_24_12
    /\ "path" \in DOMAIN result.out
    /\ \E e \in Range(registry[1]) :
          e.version = V_24_12 /\ result.out.path = e.path
    /\ \E e \in Range(registry[1]) : e.version = V_01_00_arabic

(***************************************************************************)
(* C24: a set-default whose specifier is rejected (not a registered key    *)
(* and, in the CLI, not an existing .xml file path) leaves the config file *)
(* exactly as it was: a previously stored default_schema keeps its value,  *)
(* and a missing config file stays missing; the config file is written     *)
(* only after validation has succeeded.                                    *)
(***************************************************************************)
SetDefaultOps == {"cmd_config_set_default", "config_set_default"}

C24_RejectedSetDefaultWritesNothing ==
    [][(/\ result = Idle
        /\ result'.op \in SetDefaultOps
        /\ \A e \in Range(registry'[1]) :
              ~EqIgnoreCase(EntryKey(e), KeyOf(result'.arg))
        /\ result'.op = "cmd_config_set_default" =>
              ~(EndsInXml(result'.arg) /\ PathExists(dirFiles, result'.arg)))
       => /\ config' = config
          /\ "error" \in DOMAIN result'.out]_vars

\* a set-default was rejected while a default was stored, and the default is
\* still there
C24_Witness ==
    /\ result.op \in SetDefaultOps
    /\ "error" \in DOMAIN result.out
    /\ result.arg = V_99_99
    /\ StoredDefault = V_24_12

(***************************************************************************)
(* C25: when the config holds a non-empty default schema specifier that no *)
(* longer resolves (its registry key is not registered or its file path    *)
(* does not exist), resolving with no specifier fails with the not-found   *)
(* or file-not-found error for that stored specifier; it never silently    *)
(* falls back to the latest eppm entry, and it does not modify or clear    *)
(* the stored default.                                                     *)
(***************************************************************************)
\* the stored default is a file path that does not exist, or a key that the
\* registry given does not hold
StaleDefault(held) ==
    /\ StoredDefault # <<>>
    /\ IF EndsInXml(StoredDefault) \/ HasSeparator(StoredDefault)
       THEN ~PathExists(dirFiles, StoredDefault)
       ELSE \A e \in Range(held) : ~EqIgnoreCase(EntryKey(e), KeyOf(StoredDefault))

C25_StaleDefaultFailsWithoutFallback ==
    [][(/\ result = Idle
        /\ result'.op = "resolve_schema_path"
        /\ result'.arg = <<>>
        /\ StaleDefault(registry'[1]))
       => /\ config' = config
          /\ "path" \notin DOMAIN result'.out
          /\ "specifier" \in DOMAIN result'.out
          /\ result'.out.specifier = StoredDefault
          /\ result'.out.error =
                IF EndsInXml(StoredDefault) \/ HasSeparator(StoredDefault)
                THEN "FileNotFound" ELSE "SchemaNotFound"]_vars

\* resolving without a specifier failed for the stored default while an eppm
\* schema is registered, and the default is still stored
C25_Witness ==
    /\ result.op = "resolve_schema_path"
    /\ result.arg = <<>>
    /\ "error" \in DOMAIN result.out
    /\ StoredDefault # <<>>
    /\ result.out.specifier = StoredDefault
    /\ \E e \in Range(registry[1]) : e.application = S_eppm

====
